---- MODULE Spec2Model ----
(***************************************************************************)
(* Model of the data-contract core: the Pydantic rule model                *)
(* (src/src/expectations.py), the suite converter, validator and           *)
(* serialisation layer (src/src/expectation_manager.py) and the result     *)
(* analyzer (src/src/gx_utils.py).                                          *)
(*                                                                         *)
(* Encoding of Python values:                                              *)
(*   - a dict / a model instance is a function from its keys / field names *)
(*     to values; a key that is absent is outside the DOMAIN;              *)
(*   - an Optional number is None (the empty tuple) or <<n>>;              *)
(*   - `mostly` is counted in units of 1/MostlyUnit, so 1.0 is MostlyUnit; *)
(*   - a class of the rule model is named by its Literal tag, which is     *)
(*     one-to-one with the class.                                          *)
(***************************************************************************)
EXTENDS Integers, Sequences, FiniteSets, TLC

VARIABLES
    rule,       \* the Rule instance most recently constructed (or NoRule)
    built,      \* the field values `rule` was constructed with
    suite,      \* the GreatExpectationsSuite in memory: a sequence of ExpectationWithMetadata
    gx_suite,   \* the native ExpectationSuite (or NoSuite)
    files,      \* the text stored at the output path (or NoFile)
    payload,    \* the raw validation result handed to the analyzer
    prev,       \* what validate_gx_suite returned before the last insertion into gx_suite
    process,    \* the ExpectationManager instances alive and the calls made so far
                \* to gx.get_context and to pydantic_to_gx_suite (or NoProcess)
    out         \* what the last operation returned or raised

vars == <<rule, built, suite, gx_suite, files, payload, prev, process, out>>

----------------------------------------------------------------------------
(* Bounds of the model *)

MaxNum == 1          \* bounds take values in 0..MaxNum
MostlyUnit == 1      \* resolution of `mostly`: values k/MostlyUnit
MaxRules == 2        \* longest suite, Pydantic or native
MaxEntries == 2      \* longest payload of varied result entries
MaxRanked == 6       \* longest payload of entries that differ in outcome and percentage
MaxCalls == 3        \* most calls of gx.get_context, and most conversion calls

----------------------------------------------------------------------------
(* Python values *)

None == <<>>
Some(v) == <<v>>

NoRule == [none |-> "rule"]
NoSuite == [none |-> "suite"]
NoFile == [none |-> "file"]
NoPayload == [none |-> "payload"]
NoOut == [op |-> "none"]
NoProcess == [op |-> "none"]

EmptyDict == [k \in {} |-> None]

Columns == {"a"}
Nums == 0 .. MaxNum
OptNums == {None} \cup {Some(n) : n \in Nums}

----------------------------------------------------------------------------
(* The rule model: src/src/expectations.py *)

ExpectColumnToExist == "expect_column_to_exist"
ExpectColumnValuesToNotBeNull == "expect_column_values_to_not_be_null"
ExpectColumnValuesToBeUnique == "expect_column_values_to_be_unique"
ExpectCompoundColumnsToBeUnique == "expect_compound_columns_to_be_unique"
ExpectColumnValuesToBeInSet == "expect_column_values_to_be_in_set"
ExpectColumnValuesToMatchRegex == "expect_column_values_to_match_regex"
ExpectColumnValuesToBeBetween == "expect_column_values_to_be_between"
ExpectColumnValuesToBeOfType == "expect_column_values_to_be_of_type"
ExpectColumnValuesToMatchStrftimeFormat == "expect_column_values_to_match_strftime_format"
ExpectColumnMeanToBeBetween == "expect_column_mean_to_be_between"
ExpectTableRowCountToBeBetween == "expect_table_row_count_to_be_between"
ExpectColumnMinToBeBetween == "expect_column_min_to_be_between"
ExpectColumnMaxToBeBetween == "expect_column_max_to_be_between"
ExpectColumnSumToBeBetween == "expect_column_sum_to_be_between"

\* the classes the module defines (the strftime class is commented out)
RuleClasses ==
    { ExpectColumnToExist, ExpectColumnValuesToNotBeNull, ExpectColumnValuesToBeUnique,
      ExpectCompoundColumnsToBeUnique, ExpectColumnValuesToBeInSet,
      ExpectColumnValuesToMatchRegex, ExpectColumnValuesToBeBetween,
      ExpectColumnValuesToBeOfType, ExpectColumnMeanToBeBetween,
      ExpectTableRowCountToBeBetween, ExpectColumnMinToBeBetween,
      ExpectColumnMaxToBeBetween, ExpectColumnSumToBeBetween }

\* the members of the Union, in the order of the declaration
GreatExpectation ==
    << ExpectColumnToExist, ExpectColumnValuesToNotBeNull, ExpectColumnValuesToBeUnique,
       ExpectColumnValuesToBeInSet, ExpectColumnValuesToMatchRegex,
       ExpectColumnValuesToBeBetween, ExpectColumnValuesToBeOfType,
       ExpectColumnMeanToBeBetween, ExpectTableRowCountToBeBetween,
       ExpectColumnMinToBeBetween, ExpectColumnMaxToBeBetween,
       ExpectColumnSumToBeBetween >>

\* the fields each class declares, in the order of the declaration
ModelFields(cls) ==
    CASE cls = ExpectColumnToExist -> <<"expectation_type", "column">>
      [] cls = ExpectColumnValuesToNotBeNull -> <<"expectation_type", "column", "mostly">>
      [] cls = ExpectColumnValuesToBeUnique -> <<"expectation_type", "column", "mostly">>
      [] cls = ExpectCompoundColumnsToBeUnique -> <<"expectation_type", "column_list">>
      [] cls = ExpectColumnValuesToBeInSet ->
            <<"expectation_type", "column", "value_set", "mostly">>
      [] cls = ExpectColumnValuesToMatchRegex ->
            <<"expectation_type", "column", "regex", "mostly">>
      [] cls = ExpectColumnValuesToBeBetween ->
            <<"expectation_type", "column", "min_value", "max_value", "mostly">>
      [] cls = ExpectColumnValuesToBeOfType -> <<"expectation_type", "column", "type_">>
      [] cls = ExpectColumnMeanToBeBetween ->
            <<"expectation_type", "column", "min_value", "max_value">>
      [] cls = ExpectTableRowCountToBeBetween ->
            <<"expectation_type", "min_value", "max_value">>
      [] cls = ExpectColumnMinToBeBetween ->
            <<"expectation_type", "column", "min_value", "max_value">>
      [] cls = ExpectColumnMaxToBeBetween ->
            <<"expectation_type", "column", "min_value", "max_value">>
      [] cls = ExpectColumnSumToBeBetween ->
            <<"expectation_type", "column", "min_value", "max_value">>

Range(s) == {s[i] : i \in DOMAIN s}
FieldSet(cls) == Range(ModelFields(cls))

\* Field(...): the fields declared without a default
RequiredFields == {"column", "column_list", "value_set", "regex", "type_"}

\* Field(None, ...) / Field(1.0, ...) / the Literal's default
FieldDefault(cls, f) ==
    CASE f = "expectation_type" -> cls
      [] f = "mostly" -> Some(MostlyUnit)
      [] f \in {"min_value", "max_value"} -> None

\* a variant without the upper limit
MostlyInRange_NoUpper(v) == v = None \/ v[1] >= 0

\* Field(1.0, ge=0.0, le=1.0): the constraints bind a number, None passes (Optional)
MostlyInRange(v) == v = None \/ (v[1] >= 0 /\ v[1] <= MostlyUnit)

\* the classes that declare the model_validator at_least_one_bound
WithBoundValidator ==
    { ExpectColumnValuesToBeBetween, ExpectColumnMeanToBeBetween,
      ExpectTableRowCountToBeBetween, ExpectColumnMinToBeBetween,
      ExpectColumnMaxToBeBetween, ExpectColumnSumToBeBetween }

\* a variant of the validator that asks for both bounds
at_least_one_bound_Both(self) == ~(self.min_value = None \/ self.max_value = None)

\* @model_validator(mode='after'): TRUE when the instance is returned, FALSE when it raises
at_least_one_bound(self) == ~(self.min_value = None /\ self.max_value = None)

\* BaseModel.__init__(**data) of class cls: unknown keys are ignored, defaults fill
\* the absent fields, then the field constraints and the model validator run.
Construct(cls, data) ==
    LET fields == FieldSet(cls)
        missing == {f \in fields \cap RequiredFields : f \notin DOMAIN data}
        tagOK == ("expectation_type" \in DOMAIN data) => data["expectation_type"] = cls
        value == [f \in fields |-> IF f \in DOMAIN data THEN data[f]
                                   ELSE FieldDefault(cls, f)]
        mostlyOK == ("mostly" \in fields) => MostlyInRange(value["mostly"])
        boundOK == (cls \in WithBoundValidator) => at_least_one_bound(value)
    IN  IF missing # {} THEN [ok |-> FALSE, error |-> "ValidationError", loc |-> "missing"]
        ELSE IF ~tagOK THEN [ok |-> FALSE, error |-> "ValidationError", loc |-> "expectation_type"]
        ELSE IF ~mostlyOK THEN [ok |-> FALSE, error |-> "ValidationError", loc |-> "mostly"]
        ELSE IF ~boundOK THEN [ok |-> FALSE, error |-> "ValidationError", loc |-> "bounds"]
        ELSE [ok |-> TRUE, value |-> value]

----------------------------------------------------------------------------
(* The wrapper and the suite container: src/src/expectations.py *)

ValidationError(loc) == [ok |-> FALSE, error |-> "ValidationError", loc |-> loc]

InUnion(cls) == \E i \in DOMAIN GreatExpectation : GreatExpectation[i] = cls

\* validation of a field of type GreatExpectation given a model instance: an
\* instance of a member class is taken as it is (instances are not revalidated),
\* an instance of any other class is refused
UnionFromInstance(inst) ==
    IF InUnion(inst["expectation_type"]) THEN [ok |-> TRUE, value |-> inst]
    ELSE ValidationError("expectation")

\* validation of a field of type GreatExpectation given a dict: the member
\* classes are tried and the Literal tag admits at most one of them
UnionFromDict(data) ==
    LET fits == {i \in DOMAIN GreatExpectation : Construct(GreatExpectation[i], data).ok}
    IN  IF fits = {} THEN ValidationError("expectation")
        ELSE LET first == CHOOSE i \in fits : \A j \in fits : i <= j
             IN  Construct(GreatExpectation[first], data)

SeverityLiteral == {"critical", "warning", "info"}

\* ExpectationWithMetadata(**data); byInstance tells whether data.expectation is
\* a model instance or a dict
ExpectationWithMetadata(data, byInstance) ==
    IF {"id", "expectation", "description", "source"} \ DOMAIN data # {}
    THEN ValidationError("missing")
    ELSE IF "severity" \in DOMAIN data /\ data["severity"] \notin SeverityLiteral
    THEN ValidationError("severity")
    ELSE LET e == IF byInstance THEN UnionFromInstance(data["expectation"])
                  ELSE UnionFromDict(data["expectation"])
         IN  IF ~e.ok THEN e
             ELSE [ok |-> TRUE,
                   value |-> [id |-> data["id"],
                              expectation |-> e.value,
                              description |-> data["description"],
                              source |-> data["source"],
                              severity |-> IF "severity" \in DOMAIN data
                                           THEN data["severity"] ELSE "critical"]]

----------------------------------------------------------------------------
(* The native engine objects, as the manager uses them: a configuration and a
   suite hold what their constructor was given and hand it back *)

ExpectationConfiguration(type, kwargs, meta, severity) ==
    [type |-> type, kwargs |-> kwargs, meta |-> meta, severity |-> severity]

ExpectationSuite(name, expectations, meta) ==
    [name |-> name, expectations |-> expectations, meta |-> meta]

CRITICAL == "FailureSeverity.CRITICAL"
WARNING == "FailureSeverity.WARNING"
INFO == "FailureSeverity.INFO"

----------------------------------------------------------------------------
(* The suite converter: src/src/expectation_manager.py *)

ExpectationManagerError == [ok |-> FALSE, error |-> "ExpectationManagerError"]

\* f"suite_{datetime.now().strftime(...)}" and datetime.now().isoformat()
GeneratedName == "suite_<timestamp>"
Now == "<now>"

\* expectation.model_dump(): every field of the instance, None values included
model_dump(inst) == inst

\* a variant that dumps the rule with exclude_none=True
_pydantic_expectation_to_gx_config_ExcludeNone(exp_with_metadata) ==
    LET expectation == exp_with_metadata.expectation
        kwargs == [key \in {k \in DOMAIN expectation \ {"expectation_type"} :
                              ~(k \in {"min_value", "max_value", "mostly"}
                                /\ expectation[k] = None)} |-> expectation[key]]
        meta == [expectation_id |-> exp_with_metadata.id,
                 description |-> exp_with_metadata.description,
                 source |-> exp_with_metadata.source]
    IN  ExpectationConfiguration(expectation["expectation_type"], kwargs, meta, CRITICAL)

\* a variant that writes the severity in front of the description
_pydantic_expectation_to_gx_config_TagDescription(exp_with_metadata) ==
    LET expectation == exp_with_metadata.expectation
        exp_dict == model_dump(expectation)
        kwargs == [key \in DOMAIN exp_dict \ {"expectation_type"} |-> exp_dict[key]]
        meta == [expectation_id |-> exp_with_metadata.id,
                 description |-> "[" \o exp_with_metadata.severity \o "] "
                                    \o exp_with_metadata.description,
                 source |-> exp_with_metadata.source]
        severity == IF exp_with_metadata.severity = "warning" THEN WARNING
                    ELSE IF exp_with_metadata.severity = "info" THEN INFO
                    ELSE CRITICAL
    IN  ExpectationConfiguration(expectation["expectation_type"], kwargs, meta, severity)

\* a variant that names critical and sends every other value to INFO
_pydantic_expectation_to_gx_config_ElseInfo(exp_with_metadata) ==
    LET expectation == exp_with_metadata.expectation
        exp_dict == model_dump(expectation)
        kwargs == [key \in DOMAIN exp_dict \ {"expectation_type"} |-> exp_dict[key]]
        meta == [expectation_id |-> exp_with_metadata.id,
                 description |-> exp_with_metadata.description,
                 source |-> exp_with_metadata.source]
        severity == IF exp_with_metadata.severity = "warning" THEN WARNING
                    ELSE IF exp_with_metadata.severity = "critical" THEN CRITICAL
                    ELSE INFO
    IN  ExpectationConfiguration(expectation["expectation_type"], kwargs, meta, severity)

_pydantic_expectation_to_gx_config(exp_with_metadata) ==
    LET expectation == exp_with_metadata.expectation
        exp_dict == model_dump(expectation)
        kwargs == [key \in DOMAIN exp_dict \ {"expectation_type"} |-> exp_dict[key]]
        meta == [expectation_id |-> exp_with_metadata.id,
                 description |-> exp_with_metadata.description,
                 source |-> exp_with_metadata.source]
        severity == IF exp_with_metadata.severity = "warning" THEN WARNING
                    ELSE IF exp_with_metadata.severity = "info" THEN INFO
                    ELSE CRITICAL
    IN  ExpectationConfiguration(expectation["expectation_type"], kwargs, meta, severity)

\* a variant that collects the configurations in reverse order
pydantic_to_gx_suite_Reversed(pydantic_suite, suite_name, engine_accepts) ==
    LET name == IF suite_name = None \/ suite_name = Some("") THEN GeneratedName
                ELSE suite_name[1]
        n == Len(pydantic_suite)
        gx_expectations == [i \in DOMAIN pydantic_suite |->
                                _pydantic_expectation_to_gx_config(pydantic_suite[n + 1 - i])]
    IN  IF ~engine_accepts THEN ExpectationManagerError
        ELSE [ok |-> TRUE,
              value |-> ExpectationSuite(name, gx_expectations,
                            [created_by |-> "ExpectationManager",
                             created_at |-> Now,
                             total_expectations |-> Len(gx_expectations)])]

\* suite_name is None, "" or a name; `not suite_name` holds of the first two.
\* The body runs in a try block: engine_accepts tells whether the engine's
\* constructors return; when one raises, the exception is re-raised as
\* ExpectationManagerError.
pydantic_to_gx_suite(pydantic_suite, suite_name, engine_accepts) ==
    LET name == IF suite_name = None \/ suite_name = Some("") THEN GeneratedName
                ELSE suite_name[1]
        gx_expectations == [i \in DOMAIN pydantic_suite |->
                                _pydantic_expectation_to_gx_config(pydantic_suite[i])]
    IN  IF ~engine_accepts THEN ExpectationManagerError
        ELSE [ok |-> TRUE,
              value |-> ExpectationSuite(name, gx_expectations,
                            [created_by |-> "ExpectationManager",
                             created_at |-> Now,
                             total_expectations |-> Len(gx_expectations)])]

\* the keys of expectation_mapping
expectation_mapping ==
    { ExpectColumnToExist, ExpectColumnValuesToNotBeNull, ExpectColumnValuesToBeUnique,
      ExpectCompoundColumnsToBeUnique, ExpectColumnValuesToBeInSet,
      ExpectColumnValuesToMatchRegex, ExpectColumnValuesToBeBetween,
      ExpectColumnValuesToBeOfType, ExpectColumnMeanToBeBetween,
      ExpectTableRowCountToBeBetween, ExpectColumnMinToBeBetween,
      ExpectColumnMaxToBeBetween, ExpectColumnSumToBeBetween }

\* a variant that falls back to a default kind for a tag outside the table
_create_pydantic_expectation_Fallback(expectation_type, kwargs) ==
    LET cls == IF expectation_type \in expectation_mapping THEN expectation_type
               ELSE ExpectColumnToExist
        r == Construct(cls, kwargs @@ ("expectation_type" :> cls))
    IN  IF r.ok THEN r ELSE ExpectationManagerError

_create_pydantic_expectation(expectation_type, kwargs) ==
    IF expectation_type \notin expectation_mapping THEN ExpectationManagerError
    ELSE LET model_data == kwargs @@ ("expectation_type" :> expectation_type)
             r == Construct(expectation_type, model_data)
         IN  IF r.ok THEN r ELSE ExpectationManagerError

\* meta.get(key, default)
Get(d, key, default) == IF key \in DOMAIN d THEN d[key] ELSE default

\* the dict d with one key removed
Without(d, key) == [k \in DOMAIN d \ {key} |-> d[k]]

\* d[key] = d.get(key, 0) + 1
Increment(d, key) == (key :> (Get(d, key, 0) + 1)) @@ d

\* a variant that reads the native severity back into the wrapper
_gx_config_to_pydantic_expectation_ReadSeverity(gx_config, index) ==
    LET expectation_type == gx_config.type
        meta == gx_config.meta
        pydantic_expectation == _create_pydantic_expectation(expectation_type, gx_config.kwargs)
    IN  IF ~pydantic_expectation.ok THEN pydantic_expectation
        ELSE ExpectationWithMetadata(
                 [id |-> Get(meta, "expectation_id", "exp_" \o ToString(index + 1)),
                  expectation |-> pydantic_expectation.value,
                  description |-> Get(meta, "description", "Expectation for " \o expectation_type),
                  source |-> Get(meta, "source", "GX Suite Import"),
                  severity |-> IF gx_config.severity = WARNING THEN "warning"
                               ELSE IF gx_config.severity = INFO THEN "info"
                               ELSE "critical"], TRUE)

\* a variant that numbers the generated ids from the 0-based index
_gx_config_to_pydantic_expectation_FromZero(gx_config, index) ==
    LET expectation_type == gx_config.type
        meta == gx_config.meta
        pydantic_expectation == _create_pydantic_expectation(expectation_type, gx_config.kwargs)
    IN  IF ~pydantic_expectation.ok THEN pydantic_expectation
        ELSE ExpectationWithMetadata(
                 [id |-> Get(meta, "expectation_id", "exp_" \o ToString(index)),
                  expectation |-> pydantic_expectation.value,
                  description |-> Get(meta, "description", "Expectation for " \o expectation_type),
                  source |-> Get(meta, "source", "GX Suite Import")], TRUE)

\* index is the 0-based position of the configuration in the suite
_gx_config_to_pydantic_expectation(gx_config, index) ==
    LET expectation_type == gx_config.type
        kwargs == gx_config.kwargs
        meta == gx_config.meta
        exp_id == Get(meta, "expectation_id", "exp_" \o ToString(index + 1))
        description == Get(meta, "description", "Expectation for " \o expectation_type)
        source == Get(meta, "source", "GX Suite Import")
        pydantic_expectation == _create_pydantic_expectation(expectation_type, kwargs)
    IN  IF ~pydantic_expectation.ok THEN pydantic_expectation
        ELSE ExpectationWithMetadata(
                 [id |-> exp_id, expectation |-> pydantic_expectation.value,
                  description |-> description, source |-> source], TRUE)

\* the loop of gx_suite_to_pydantic over configs[i..]: acc is pydantic_expectations;
\* the first exception leaves the loop
RECURSIVE ConvertLoop(_, _, _)
ConvertLoop(configs, i, acc) ==
    IF i > Len(configs) THEN [ok |-> TRUE, value |-> acc]
    ELSE LET pydantic_exp == _gx_config_to_pydantic_expectation(configs[i], i - 1)
         IN  IF ~pydantic_exp.ok THEN pydantic_exp
             ELSE ConvertLoop(configs, i + 1, Append(acc, pydantic_exp.value))

\* every exception is re-raised as ExpectationManagerError; otherwise the suite
\* is built from the converted instances
gx_suite_to_pydantic(gx) ==
    LET r == ConvertLoop(gx.expectations, 1, <<>>)
    IN  IF r.ok THEN [ok |-> TRUE, value |-> r.value] ELSE ExpectationManagerError

----------------------------------------------------------------------------
(* The suite validator and the summary: src/src/expectation_manager.py *)

\* a variant of the list without the three kinds declared last in the rule model
supported_types_Core ==
    { ExpectColumnToExist, ExpectColumnValuesToNotBeNull, ExpectColumnValuesToBeUnique,
      ExpectCompoundColumnsToBeUnique, ExpectColumnValuesToBeInSet,
      ExpectColumnValuesToMatchRegex, ExpectColumnValuesToBeBetween,
      ExpectColumnValuesToBeOfType, ExpectColumnValuesToMatchStrftimeFormat,
      ExpectColumnMeanToBeBetween, ExpectTableRowCountToBeBetween }

supported_types ==
    { ExpectColumnToExist, ExpectColumnValuesToNotBeNull, ExpectColumnValuesToBeUnique,
      ExpectCompoundColumnsToBeUnique, ExpectColumnValuesToBeInSet,
      ExpectColumnValuesToMatchRegex, ExpectColumnValuesToBeBetween,
      ExpectColumnValuesToBeOfType, ExpectColumnValuesToMatchStrftimeFormat,
      ExpectColumnMeanToBeBetween, ExpectTableRowCountToBeBetween,
      ExpectColumnMinToBeBetween, ExpectColumnMaxToBeBetween,
      ExpectColumnSumToBeBetween }

\* a variant with the check of the 'column' parameter switched on
_validate_single_expectation_ColumnCheck(expectation, index) ==
    [index |-> index,
     expectation_type |-> expectation.type,
     is_valid |-> /\ expectation.type \in supported_types
                  /\ (expectation.type # ExpectTableRowCountToBeBetween
                         => "column" \in DOMAIN expectation.kwargs),
     errors |-> <<>>,
     warnings |-> <<>>]

\* index is the 0-based position of the configuration in the suite
_validate_single_expectation(expectation, index) ==
    LET validation_details == [index |-> index,
                               expectation_type |-> expectation.type,
                               is_valid |-> TRUE,
                               errors |-> <<>>,
                               warnings |-> <<>>]
    IN  IF expectation.type \notin supported_types
        THEN [validation_details EXCEPT
                 !.errors = Append(@, "Unsupported expectation type: " \o expectation.type),
                 !.is_valid = FALSE]
        ELSE validation_details

\* a variant of the loop in which the last rule's verdict overwrites is_valid
RECURSIVE ValidateLoop_LastWins(_, _, _)
ValidateLoop_LastWins(expectations, i, validation_report) ==
    IF i > Len(expectations) THEN validation_report
    ELSE LET exp_validation == _validate_single_expectation(expectations[i], i - 1)
         IN  ValidateLoop_LastWins(expectations, i + 1,
                 [validation_report EXCEPT
                     !.expectation_details = Append(@, exp_validation),
                     !.is_valid = exp_validation.is_valid])

\* a variant of the loop that stops at the first rule found invalid
RECURSIVE ValidateLoop_StopAtFirst(_, _, _)
ValidateLoop_StopAtFirst(expectations, i, validation_report) ==
    IF i > Len(expectations) THEN validation_report
    ELSE LET exp_validation == _validate_single_expectation(expectations[i], i - 1)
         IN  IF ~exp_validation.is_valid
             THEN [validation_report EXCEPT
                      !.expectation_details = Append(@, exp_validation),
                      !.is_valid = FALSE]
             ELSE ValidateLoop_StopAtFirst(expectations, i + 1,
                      [validation_report EXCEPT
                          !.expectation_details = Append(@, exp_validation)])

\* the loop of validate_gx_suite over expectations[i..]
RECURSIVE ValidateLoop(_, _, _)
ValidateLoop(expectations, i, validation_report) ==
    IF i > Len(expectations) THEN validation_report
    ELSE LET exp_validation == _validate_single_expectation(expectations[i], i - 1)
         IN  ValidateLoop(expectations, i + 1,
                 [validation_report EXCEPT
                     !.expectation_details = Append(@, exp_validation),
                     !.is_valid = IF ~exp_validation.is_valid THEN FALSE ELSE @])

\* a variant without the check for an empty suite
validate_gx_suite_NoEmptyCheck(gx) ==
    LET r0 == [suite_name |-> gx.name,
               total_expectations |-> Len(gx.expectations),
               validation_errors |-> <<>>,
               validation_warnings |-> <<>>,
               expectation_details |-> <<>>,
               is_valid |-> TRUE,
               validated_at |-> Now]
        validation_report == ValidateLoop(gx.expectations, 1, r0)
    IN  [is_valid |-> validation_report.is_valid, report |-> validation_report]

\* returns the pair (is_valid, validation_report)
validate_gx_suite(gx) ==
    LET r0 == [suite_name |-> gx.name,
               total_expectations |-> Len(gx.expectations),
               validation_errors |-> <<>>,
               validation_warnings |-> <<>>,
               expectation_details |-> <<>>,
               is_valid |-> TRUE,
               validated_at |-> Now]
        r1 == IF gx.name = ""
              THEN [r0 EXCEPT !.validation_warnings = Append(@, "Suite has no name")]
              ELSE r0
        r2 == IF Len(gx.expectations) = 0
              THEN [r1 EXCEPT !.validation_errors = Append(@, "Suite has no expectations"),
                              !.is_valid = FALSE]
              ELSE r1
        validation_report == ValidateLoop(gx.expectations, 1, r2)
    IN  [is_valid |-> validation_report.is_valid, report |-> validation_report]

\* a variant of the counting loop that records a kind without counting it
RECURSIVE SummaryLoop_Flag(_, _, _)
SummaryLoop_Flag(expectations, i, expectation_types) ==
    IF i > Len(expectations) THEN expectation_types
    ELSE LET exp_type == expectations[i].expectation["expectation_type"]
         IN  SummaryLoop_Flag(expectations, i + 1, (exp_type :> 1) @@ expectation_types)

\* the loop of get_suite_summary over expectations[i..]
RECURSIVE SummaryLoop(_, _, _)
SummaryLoop(expectations, i, expectation_types) ==
    IF i > Len(expectations) THEN expectation_types
    ELSE LET exp_type == expectations[i].expectation["expectation_type"]
         IN  SummaryLoop(expectations, i + 1, Increment(expectation_types, exp_type))

\* set([exp.source for exp in ...])
SourceSet(pydantic_suite) == {pydantic_suite[i].source : i \in DOMAIN pydantic_suite}

\* list(set): every element once, in an order the language does not fix
list_of_set(S) == {l \in [1 .. Cardinality(S) -> S] : Range(l) = S}

\* `sources` is the list that list(set(...)) produced, one of list_of_set(SourceSet(..))
get_suite_summary(pydantic_suite, sources) ==
    [total_expectations |-> Len(pydantic_suite),
     expectation_types |-> SummaryLoop(pydantic_suite, 1, EmptyDict),
     expectation_ids |-> [i \in DOMAIN pydantic_suite |-> pydantic_suite[i].id],
     sources |-> sources]

\* a variant without the try block: the exception of the conversion propagates
validate_pydantic_suite_Propagate(pydantic_suite, engine_accepts, sources) ==
    LET gx == pydantic_to_gx_suite(pydantic_suite, None, engine_accepts)
    IN  IF ~gx.ok THEN gx
        ELSE LET v == validate_gx_suite(gx.value)
             IN  [is_valid |-> v.is_valid,
                  report |-> [source |-> "Pydantic Suite Validation",
                              pydantic_summary |-> get_suite_summary(pydantic_suite, sources)]
                             @@ v.report]

\* the whole body runs in a try block whose handler returns the failure report
validate_pydantic_suite(pydantic_suite, engine_accepts, sources) ==
    LET gx == pydantic_to_gx_suite(pydantic_suite, None, engine_accepts)
    IN  IF ~gx.ok
        THEN [is_valid |-> FALSE,
              report |-> [is_valid |-> FALSE, error |-> gx.error,
                          source |-> "Pydantic Suite Validation", validated_at |-> Now]]
        ELSE LET v == validate_gx_suite(gx.value)
             IN  [is_valid |-> v.is_valid,
                  report |-> [source |-> "Pydantic Suite Validation",
                              pydantic_summary |-> get_suite_summary(pydantic_suite, sources)]
                             @@ v.report]

----------------------------------------------------------------------------
(* The serialisation layer: src/src/expectation_manager.py *)

\* a variant that leaves out the entries that do not validate
GreatExpectationsSuite_DropInvalid(data) ==
    IF "expectations" \notin DOMAIN data THEN ValidationError("missing")
    ELSE LET es == [i \in DOMAIN data["expectations"] |->
                        ExpectationWithMetadata(data["expectations"][i], FALSE)]
             kept == SelectSeq(es, LAMBDA e : e.ok)
         IN  [ok |-> TRUE, value |-> [i \in DOMAIN kept |-> kept[i].value]]

\* GreatExpectationsSuite(**data) on decoded data: every entry of `expectations`
\* is validated as an ExpectationWithMetadata given as a dict
GreatExpectationsSuite(data) ==
    IF "expectations" \notin DOMAIN data THEN ValidationError("missing")
    ELSE LET es == [i \in DOMAIN data["expectations"] |->
                        ExpectationWithMetadata(data["expectations"][i], FALSE)]
         IN  IF \E i \in DOMAIN es : ~es[i].ok THEN ValidationError("expectations")
             ELSE [ok |-> TRUE, value |-> [i \in DOMAIN es |-> es[i].value]]

\* the fields declared Optional: the ones that can hold None
OptionalFields == {"min_value", "max_value", "mostly"}

\* a variant of the dump that keeps the None values
model_dump_exclude_none_KeepNone(pydantic_suite) ==
    [expectations |->
        [i \in DOMAIN pydantic_suite |->
            [id |-> pydantic_suite[i].id,
             expectation |-> pydantic_suite[i].expectation,
             description |-> pydantic_suite[i].description,
             source |-> pydantic_suite[i].source,
             severity |-> pydantic_suite[i].severity]]]

\* pydantic_suite.model_dump(exclude_none=True): nested dicts in which a field
\* whose value is None has no key
model_dump_exclude_none(pydantic_suite) ==
    [expectations |->
        [i \in DOMAIN pydantic_suite |->
            LET e == pydantic_suite[i].expectation
                kept == {k \in DOMAIN e : ~(k \in OptionalFields /\ e[k] = None)}
            IN  [id |-> pydantic_suite[i].id,
                 expectation |-> [k \in kept |-> e[k]],
                 description |-> pydantic_suite[i].description,
                 source |-> pydantic_suite[i].source,
                 severity |-> pydantic_suite[i].severity]]]

\* the keys of a dumped rule in the order model_dump inserts them: the fields
\* in the order of the declaration, without those left out
RECURSIVE InsertionOrder(_, _)
InsertionOrder(fields, dumped) ==
    IF fields = <<>> THEN <<>>
    ELSE (IF Head(fields) \in DOMAIN dumped THEN <<Head(fields)>> ELSE <<>>)
         \o InsertionOrder(Tail(fields), dumped)

\* the insertion order of the dicts of a dumped suite, entry by entry
dict_keys(pydantic_suite, data) ==
    [i \in DOMAIN pydantic_suite |->
        [entry |-> <<"id", "expectation", "description", "source", "severity">>,
         expectation |-> InsertionOrder(ModelFields(pydantic_suite[i].expectation["expectation_type"]),
                                        data["expectations"][i]["expectation"])]]

\* json.dumps / yaml.dump(sort_keys=False): the text of a document in one
\* encoding, its keys written in the insertion order of the dicts; the dumped
\* documents hold only strings, numbers, lists and dicts, which both encodings
\* write and read back unchanged
json_dumps(data, keys) == [encoding |-> "json", doc |-> data, keys |-> keys]
yaml_dump(data, keys) == [encoding |-> "yaml", doc |-> data, keys |-> keys]

DecodeError == [ok |-> FALSE, error |-> "DecodeError"]

\* json.loads reads JSON text only; yaml.safe_load also reads the JSON text
\* that json.dumps writes
json_loads(text) == IF text.encoding = "json" THEN [ok |-> TRUE, value |-> text.doc] ELSE DecodeError
yaml_safe_load(text) == [ok |-> TRUE, value |-> text.doc]

\* returns the text; `write` tells whether the text is also written to output_path
serialize_to_json(pydantic_suite, output_path) ==
    LET json_data == model_dump_exclude_none(pydantic_suite)
    IN  [ok |-> TRUE, value |-> json_dumps(json_data, dict_keys(pydantic_suite, json_data)),
         write |-> output_path # None /\ output_path # Some("")]

serialize_to_yaml(pydantic_suite, output_path) ==
    LET yaml_data == model_dump_exclude_none(pydantic_suite)
    IN  [ok |-> TRUE, value |-> yaml_dump(yaml_data, dict_keys(pydantic_suite, yaml_data)),
         write |-> output_path # None /\ output_path # Some("")]

\* the input is the text itself (is_file False) or the content found at the
\* path, NoFile when the path does not exist
deserialize_from_json(json_input) ==
    IF json_input = NoFile THEN ExpectationManagerError
    ELSE LET data == json_loads(json_input)
         IN  IF ~data.ok THEN ExpectationManagerError
             ELSE LET r == GreatExpectationsSuite(data.value)
                  IN  IF r.ok THEN r ELSE ExpectationManagerError

deserialize_from_yaml(yaml_input) ==
    IF yaml_input = NoFile THEN ExpectationManagerError
    ELSE LET data == yaml_safe_load(yaml_input)
         IN  IF ~data.ok THEN ExpectationManagerError
             ELSE LET r == GreatExpectationsSuite(data.value)
                  IN  IF r.ok THEN r ELSE ExpectationManagerError

----------------------------------------------------------------------------
(* The result analyzer: src/src/gx_utils.py *)

\* [:5]
TopN == 5

Min(a, b) == IF a <= b THEN a ELSE b

\* a variant that takes an entry without a success flag as a success
Detail_DefaultPass(result) ==
    LET expectation_config == Get(result, "expectation_config", EmptyDict)
        expectation_result == Get(result, "result", EmptyDict)
        meta == Get(expectation_config, "meta", EmptyDict)
        kwargs == Get(expectation_config, "kwargs", EmptyDict)
        success == Get(result, "success", TRUE)
        base == [expectation_id |-> Get(meta, "expectation_id", "unknown"),
                 expectation_type |-> Get(expectation_config, "type", "unknown"),
                 column |-> IF "column" \in DOMAIN kwargs THEN Some(kwargs["column"]) ELSE None,
                 description |-> Get(meta, "description", "No description"),
                 severity |-> Get(expectation_config, "severity", "unknown"),
                 source |-> Get(meta, "source", "unknown"),
                 success |-> success,
                 expectation_kwargs |-> kwargs]
        failure_info ==
            [total_elements |-> Get(expectation_result, "element_count", 0),
             invalid_count |-> Get(expectation_result, "unexpected_count", 0),
             invalid_percentage |-> Get(expectation_result, "unexpected_percent", 0),
             invalid_values |-> Get(expectation_result, "partial_unexpected_list", <<>>),
             invalid_indices |-> Get(expectation_result, "partial_unexpected_index_list", <<>>),
             value_counts |-> Get(expectation_result, "partial_unexpected_counts", <<>>)]
    IN  IF success
        THEN base @@ [status |-> "PASS", failure_info |-> None]
        ELSE base @@ [status |-> "FAIL", failure_info |-> failure_info]

\* the detail record of one result entry
Detail(result) ==
    LET expectation_config == Get(result, "expectation_config", EmptyDict)
        expectation_result == Get(result, "result", EmptyDict)
        meta == Get(expectation_config, "meta", EmptyDict)
        kwargs == Get(expectation_config, "kwargs", EmptyDict)
        success == Get(result, "success", FALSE)
        base == [expectation_id |-> Get(meta, "expectation_id", "unknown"),
                 expectation_type |-> Get(expectation_config, "type", "unknown"),
                 column |-> IF "column" \in DOMAIN kwargs THEN Some(kwargs["column"]) ELSE None,
                 description |-> Get(meta, "description", "No description"),
                 severity |-> Get(expectation_config, "severity", "unknown"),
                 source |-> Get(meta, "source", "unknown"),
                 success |-> success,
                 expectation_kwargs |-> kwargs]
        failure_info ==
            [total_elements |-> Get(expectation_result, "element_count", 0),
             invalid_count |-> Get(expectation_result, "unexpected_count", 0),
             invalid_percentage |-> Get(expectation_result, "unexpected_percent", 0),
             invalid_values |-> Get(expectation_result, "partial_unexpected_list", <<>>),
             invalid_indices |-> Get(expectation_result, "partial_unexpected_index_list", <<>>),
             value_counts |-> Get(expectation_result, "partial_unexpected_counts", <<>>)]
            @@ (IF "missing_count" \in DOMAIN expectation_result
                THEN [missing_count |-> expectation_result["missing_count"],
                      missing_percentage |-> Get(expectation_result, "missing_percent", 0)]
                ELSE EmptyDict)
    IN  IF success
        THEN base @@ [status |-> "PASS", failure_info |-> None]
        ELSE base @@ [status |-> "FAIL", failure_info |-> failure_info]

\* a variant that only asks for a column other than None
Truthy_NotNone(column) == column # None

\* `if column:` holds of a column that is neither None nor empty
Truthy(column) == column # None /\ column # Some("")

BucketEntry(detail) ==
    [expectation_id |-> detail.expectation_id,
     column |-> detail.column,
     invalid_percentage |-> IF detail.failure_info # None
                            THEN detail.failure_info.invalid_percentage ELSE 0]

\* a variant of the loop that puts every severity other than critical and
\* warning into the info bucket
RECURSIVE FailureLoop_ElseInfo(_, _, _)
FailureLoop_ElseInfo(details, i, fs) ==
    IF i > Len(details) THEN fs
    ELSE LET detail == details[i]
             s1 == [fs EXCEPT !.failed_by_type = Increment(@, detail.expectation_type)]
             s2 == IF Truthy(detail.column)
                   THEN [s1 EXCEPT !.failed_by_column = Increment(@, detail.column[1])]
                   ELSE s1
             s3 == IF detail.severity = "critical"
                   THEN [s2 EXCEPT !.critical_failures = Append(@, BucketEntry(detail))]
                   ELSE IF detail.severity = "warning"
                   THEN [s2 EXCEPT !.warning_failures = Append(@, BucketEntry(detail))]
                   ELSE [s2 EXCEPT !.info_failures = Append(@, BucketEntry(detail))]
         IN  FailureLoop_ElseInfo(details, i + 1, IF detail.status = "FAIL" THEN s3 ELSE fs)

\* the loop that fills failure_summary, over expectation_details[i..]
RECURSIVE FailureLoop(_, _, _)
FailureLoop(details, i, fs) ==
    IF i > Len(details) THEN fs
    ELSE LET detail == details[i]
             s1 == [fs EXCEPT !.failed_by_type = Increment(@, detail.expectation_type)]
             s2 == IF Truthy(detail.column)
                   THEN [s1 EXCEPT !.failed_by_column = Increment(@, detail.column[1])]
                   ELSE s1
             s3 == IF detail.severity = "critical"
                   THEN [s2 EXCEPT !.critical_failures = Append(@, BucketEntry(detail))]
                   ELSE s2
             s4 == IF detail.severity = "warning"
                   THEN [s3 EXCEPT !.warning_failures = Append(@, BucketEntry(detail))]
                   ELSE s3
             s5 == IF detail.severity = "info"
                   THEN [s4 EXCEPT !.info_failures = Append(@, BucketEntry(detail))]
                   ELSE s4
         IN  FailureLoop(details, i + 1, IF detail.status = "FAIL" THEN s5 ELSE fs)

\* [d for d in seq if keep(d)], for the two filters of the analyzer
RECURSIVE FailedWithInfo(_)
FailedWithInfo(details) ==
    IF details = <<>> THEN <<>>
    ELSE LET d == Head(details)
         IN  (IF d.status = "FAIL" /\ d.failure_info # None THEN <<d>> ELSE <<>>)
             \o FailedWithInfo(Tail(details))

Key(d) == d.failure_info.invalid_percentage

\* a variant of the sort that reverses an ascending sort: equal keys come out
\* in reverse order
RECURSIVE sorted_reverse_Flipped(_)
sorted_reverse_Flipped(seq) ==
    IF seq = <<>> THEN <<>>
    ELSE LET x == seq[Len(seq)]
             rest == sorted_reverse_Flipped(SubSeq(seq, 1, Len(seq) - 1))
             n == Cardinality({k \in DOMAIN rest : Key(rest[k]) > Key(x)})
         IN  SubSeq(rest, 1, n) \o <<x>> \o SubSeq(rest, n + 1, Len(rest))

\* sorted(seq, key=invalid_percentage, reverse=True): descending and stable, so
\* the last element goes behind every element whose key is at least its own
RECURSIVE sorted_reverse(_)
sorted_reverse(seq) ==
    IF seq = <<>> THEN <<>>
    ELSE LET x == seq[Len(seq)]
             rest == sorted_reverse(SubSeq(seq, 1, Len(seq) - 1))
             n == Cardinality({k \in DOMAIN rest : Key(rest[k]) >= Key(x)})
         IN  SubSeq(rest, 1, n) \o <<x>> \o SubSeq(rest, n + 1, Len(rest))

executive_summary(result_dict) ==
    LET results == Get(result_dict, "results", <<>>)
        statistics == Get(result_dict, "statistics", EmptyDict)
    IN  [overall_success |-> Get(result_dict, "success", FALSE),
         total_expectations |-> Get(statistics, "evaluated_expectations", Len(results)),
         successful_expectations |-> Get(statistics, "successful_expectations", 0),
         failed_expectations |-> Get(statistics, "unsuccessful_expectations", 0),
         success_percentage |-> Get(statistics, "success_percent", 0),
         validation_time |-> Get(Get(result_dict, "meta", EmptyDict), "validation_time", None),
         suite_name |-> Get(result_dict, "suite_name", None)]

analyze_validation_results(result_dict) ==
    LET results == Get(result_dict, "results", <<>>)
        expectation_details == [i \in DOMAIN results |-> Detail(results[i])]
        fs0 == [failed_by_type |-> EmptyDict,
                failed_by_column |-> EmptyDict,
                critical_failures |-> <<>>,
                warning_failures |-> <<>>,
                info_failures |-> <<>>,
                most_common_failures |-> <<>>]
        fs1 == FailureLoop(expectation_details, 1, fs0)
        ranked == sorted_reverse(FailedWithInfo(expectation_details))
    IN  [executive_summary |-> executive_summary(result_dict),
         expectation_details |-> expectation_details,
         failure_summary |->
            [fs1 EXCEPT !.most_common_failures = SubSeq(ranked, 1, Min(TopN, Len(ranked)))],
         raw_statistics |-> Get(result_dict, "statistics", EmptyDict)]

\* [detail for detail in seq if detail['status'] == 'FAIL']
RECURSIVE FailedOnly(_)
FailedOnly(details) ==
    IF details = <<>> THEN <<>>
    ELSE (IF Head(details).status = "FAIL" THEN <<Head(details)>> ELSE <<>>)
         \o FailedOnly(Tail(details))

get_failed_expectations_summary(validation_result) ==
    LET analysis == analyze_validation_results(validation_result)
        failed_expectations == FailedOnly(analysis.expectation_details)
    IN  [total_failures |-> Len(failed_expectations),
         failed_expectations |-> failed_expectations,
         failure_summary |-> analysis.failure_summary]

----------------------------------------------------------------------------
(* The prompt helpers: src/src/gx_promt_utils.py *)

\* the classes `from src.expectations import (...)` binds in the module
Imported ==
    { ExpectColumnMaxToBeBetween, ExpectColumnMeanToBeBetween,
      ExpectColumnMinToBeBetween, ExpectColumnSumToBeBetween,
      ExpectColumnToExist, ExpectColumnValuesToBeBetween,
      ExpectColumnValuesToBeInSet, ExpectColumnValuesToBeOfType,
      ExpectColumnValuesToBeUnique, ExpectColumnValuesToMatchRegex,
      ExpectColumnValuesToNotBeNull, ExpectCompoundColumnsToBeUnique,
      ExpectTableRowCountToBeBetween }

\* the names the list display evaluates, left to right
expectation_models ==
    << ExpectColumnToExist, ExpectColumnValuesToNotBeNull, ExpectColumnValuesToBeUnique,
       ExpectCompoundColumnsToBeUnique, ExpectColumnValuesToBeInSet,
       ExpectColumnValuesToMatchRegex, ExpectColumnValuesToBeBetween,
       ExpectColumnValuesToBeOfType, ExpectColumnValuesToMatchStrftimeFormat,
       ExpectColumnMeanToBeBetween, ExpectTableRowCountToBeBetween,
       ExpectColumnMinToBeBetween, ExpectColumnMaxToBeBetween,
       ExpectColumnSumToBeBetween >>

NameError(name) == [ok |-> FALSE, error |-> "NameError", name |-> name]

\* yaml.dump(model.model_json_schema()): the class, its fields and the required ones
convert_model_to_str(model) ==
    [title |-> model,
     properties |-> ModelFields(model),
     required |-> SelectSeq(ModelFields(model), LAMBDA f : f \in RequiredFields)]

\* a name bound neither in the module nor in builtins raises NameError when the
\* list is built, before the loop runs
get_pydantic_expectations_info ==
    LET unbound == {i \in DOMAIN expectation_models : expectation_models[i] \notin Imported}
    IN  IF unbound # {}
        THEN NameError(expectation_models[CHOOSE i \in unbound : \A j \in unbound : i <= j])
        ELSE [ok |-> TRUE,
              value |-> [i \in DOMAIN expectation_models |->
                            convert_model_to_str(expectation_models[i])]]

----------------------------------------------------------------------------
(* Inputs of the rule model *)

\* values a caller may pass for `mostly`: in range, and just outside on either side
MostlyInputs == {None} \cup {Some(k) : k \in (0 - 1) .. (MostlyUnit + 1)}

ValueSets == {<<>>, <<0>>, <<0, 1>>, <<1, 0>>}
ColumnLists == {<<>>, <<"a">>, <<"a", "b">>, <<"b", "a">>}

FieldInputs(f) ==
    CASE f = "column" -> Columns
      [] f = "mostly" -> MostlyInputs
      [] f \in {"min_value", "max_value"} -> OptNums
      [] f = "value_set" -> ValueSets
      [] f = "column_list" -> ColumnLists
      [] f = "regex" -> {"^x$"}
      [] f = "type_" -> {"int"}

\* the keyword arguments a caller may pass for the fields fs: each field is
\* either left out or given one value of its input set
RECURSIVE DictsOver(_)
DictsOver(fs) ==
    IF fs = <<>> THEN {EmptyDict}
    ELSE LET rest == DictsOver(Tail(fs))
         IN  rest \cup {(Head(fs) :> v) @@ d : v \in FieldInputs(Head(fs)), d \in rest}

RuleInputs(cls) == DictsOver(Tail(ModelFields(cls)))

----------------------------------------------------------------------------
(* Specification of the rule model: construct a Rule, assign to its attributes *)

InitIdle ==
    /\ rule = NoRule
    /\ built = NoRule
    /\ suite = <<>>
    /\ gx_suite = NoSuite
    /\ files = NoFile
    /\ payload = NoPayload
    /\ prev = NoOut
    /\ process = NoProcess
    /\ out = NoOut

\* cls(**data): returns the new instance, or raises and returns none
NewRule(cls, data) ==
    LET r == Construct(cls, data)
    IN  /\ rule' = IF r.ok THEN r.value ELSE NoRule
        /\ built' = rule'
        /\ out' = [op |-> "construct", cls |-> cls, data |-> data, ok |-> r.ok]
        /\ UNCHANGED <<process, suite, gx_suite, files, payload, prev>>

\* the fields an attribute assignment of the model writes
AssignableFields == {"min_value", "max_value", "mostly"}

\* rule.f = v: the classes set no model_config (neither frozen nor
\* validate_assignment), so BaseModel.__setattr__ stores v unchecked
SetAttr(f, v) ==
    /\ rule # NoRule
    /\ f \in DOMAIN rule
    /\ rule' = [rule EXCEPT ![f] = v]
    /\ out' = [op |-> "setattr"]
    /\ UNCHANGED <<process, built, suite, gx_suite, files, payload, prev>>

NextModel ==
    \/ \E cls \in RuleClasses : \E data \in RuleInputs(cls) : NewRule(cls, data)
    \/ \E f \in AssignableFields : \E v \in FieldInputs(f) : SetAttr(f, v)

SpecModel == InitIdle /\ [][NextModel]_vars

----------------------------------------------------------------------------
(* Claims on the rule model *)

BoundGiven(data, f) == f \in DOMAIN data /\ data[f] # None

\* the parameters other than the bounds satisfy their declarations
OtherParamsValid(cls, data) ==
    /\ \A f \in FieldSet(cls) \cap RequiredFields : f \in DOMAIN data
    /\ ("mostly" \in DOMAIN data /\ data["mostly"] # None)
          => (data["mostly"][1] >= 0 /\ data["mostly"][1] <= MostlyUnit)

RangedKinds ==
    { ExpectColumnValuesToBeBetween, ExpectColumnMeanToBeBetween,
      ExpectTableRowCountToBeBetween, ExpectColumnMinToBeBetween,
      ExpectColumnMaxToBeBetween, ExpectColumnSumToBeBetween }

\* C3: constructing a ranged rule kind with both min_value and max_value absent
\* fails with a validation error; with exactly one of the two bounds present
\* (and the other parameters valid) it succeeds.
C3_BoundInvariantEnforced ==
    (out.op = "construct" /\ out.cls \in RangedKinds) =>
        LET lo == BoundGiven(out.data, "min_value")
            hi == BoundGiven(out.data, "max_value")
        IN  /\ (~lo /\ ~hi) => ~out.ok
            /\ ((lo /\ ~hi) \/ (~lo /\ hi)) /\ OtherParamsValid(out.cls, out.data) => out.ok

\* C3 witness: a construction of a ranged kind with a column and no bound at
\* all was refused
C3_Witness ==
    /\ out.op = "construct" /\ out.cls = ExpectColumnSumToBeBetween
    /\ ~BoundGiven(out.data, "min_value") /\ ~BoundGiven(out.data, "max_value")
    /\ "min_value" \in DOMAIN out.data
    /\ "column" \in DOMAIN out.data
    /\ ~out.ok /\ rule = NoRule

\* the parameters a kind requires
RequiredParams(tag) ==
    CASE tag = "expect_compound_columns_to_be_unique" -> {"column_list"}
      [] tag = "expect_table_row_count_to_be_between" -> {}
      [] tag = "expect_column_values_to_be_in_set" -> {"column", "value_set"}
      [] tag = "expect_column_values_to_match_regex" -> {"column", "regex"}
      [] tag = "expect_column_values_to_be_of_type" -> {"column", "type_"}
      [] OTHER -> {"column"}

MostlyKinds ==
    { "expect_column_values_to_not_be_null", "expect_column_values_to_be_unique",
      "expect_column_values_to_be_in_set", "expect_column_values_to_match_regex",
      "expect_column_values_to_be_between" }

\* C19: for every rule kind with a `mostly` field, construction with mostly < 0
\* or mostly > 1 fails with a validation error (the value is not clamped),
\* construction with mostly in [0,1] succeeds and keeps the value, and
\* construction without mostly yields mostly = 1.0.
C19_MostlyRejectedNotClamped ==
    (out.op = "construct" /\ out.cls \in MostlyKinds) =>
        LET given == BoundGiven(out.data, "mostly")
            m == out.data["mostly"][1]
            others == /\ RequiredParams(out.cls) \subseteq DOMAIN out.data
                      /\ out.cls \in RangedKinds
                            => (BoundGiven(out.data, "min_value")
                                \/ BoundGiven(out.data, "max_value"))
        IN  /\ (given /\ (m < 0 \/ m > MostlyUnit)) => (~out.ok /\ rule = NoRule)
            /\ (given /\ m >= 0 /\ m <= MostlyUnit /\ others)
                  => (out.ok /\ rule["mostly"] = <<m>>)
            /\ ("mostly" \notin DOMAIN out.data /\ others)
                  => (out.ok /\ rule["mostly"] = <<MostlyUnit>>)

\* C19 witness: a value-set rule with every required parameter and a `mostly`
\* above 1 has been refused
C19_Witness ==
    /\ out.op = "construct" /\ out.cls = ExpectColumnValuesToBeInSet
    /\ {"column", "value_set", "mostly"} \subseteq DOMAIN out.data
    /\ out.data["mostly"] = <<MostlyUnit + 1>>
    /\ ~out.ok /\ rule = NoRule

\* C4: a Rule is immutable once constructed: its fields equal the values it was
\* constructed with, so a ranged Rule keeps at least one bound and `mostly`
\* stays in [0,1].
C4_RuleImmutable ==
    rule # NoRule =>
        /\ rule = built
        /\ (rule["expectation_type"] \in RangedKinds)
              => (rule["min_value"] # None \/ rule["max_value"] # None)
        /\ ("mostly" \in DOMAIN rule /\ rule["mostly"] # None)
              => (rule["mostly"][1] >= 0 /\ rule["mostly"][1] <= MostlyUnit)

\* C24: constructing a compound-columns-unique rule requires a column_list with
\* at least one column: with an empty column_list the construction fails with
\* a validation error, with one or more columns it succeeds and keeps the
\* list order.
C24_CompoundNeedsAColumn ==
    (/\ out.op = "construct"
     /\ out.cls = ExpectCompoundColumnsToBeUnique
     /\ "column_list" \in DOMAIN out.data) =>
        /\ out.ok <=> Len(out.data["column_list"]) >= 1
        /\ out.ok => rule["column_list"] = out.data["column_list"]

\* C24, the part that holds: a compound rule given one or more columns is
\* constructed and keeps the list as given
C24_GivenColumnsKept ==
    (/\ out.op = "construct"
     /\ out.cls = ExpectCompoundColumnsToBeUnique
     /\ "column_list" \in DOMAIN out.data
     /\ Len(out.data["column_list"]) >= 1) =>
        out.ok /\ rule["column_list"] = out.data["column_list"]

----------------------------------------------------------------------------
(* Inputs of the converter: valid suites *)

\* every Rule a member class of the Union accepts from the rule inputs
RulePool ==
    UNION { {Construct(GreatExpectation[i], d).value :
                d \in {x \in RuleInputs(GreatExpectation[i]) :
                          Construct(GreatExpectation[i], x).ok}} :
            i \in DOMAIN GreatExpectation }

Wrap(r, id, source, severity) ==
    ExpectationWithMetadata(
        [id |-> id, expectation |-> r, description |-> "about " \o id,
         source |-> source, severity |-> severity], TRUE).value

FirstRule == Construct(ExpectColumnToExist, [column |-> "a"]).value

\* every rule under one set of metadata, and one rule under every set of metadata
WrappedPool ==
    {Wrap(r, "id_a", "Documentation", "critical") : r \in RulePool}
    \cup {Wrap(FirstRule, id, src, sev) :
            id \in {"id_a", "id_b"}, src \in {"Documentation", "Data Profiling"},
            sev \in SeverityLiteral}

\* the rules that fill the other positions of a suite
CorePool ==
    { Wrap(FirstRule, "id_a", "Documentation", "critical"),
      Wrap(Construct(ExpectColumnValuesToBeBetween,
                     [column |-> "a", min_value |-> Some(0)]).value,
           "id_b", "Data Profiling", "warning") }

\* the suites of up to MaxRules rules with at most one rule outside CorePool
Suites ==
    UNION { UNION { {[s EXCEPT ![i] = e] : i \in 1 .. n, e \in WrappedPool} :
                    s \in [1 .. n -> CorePool] } : n \in 1 .. MaxRules }
    \cup {<<>>}

SuiteNames == {None, Some(""), Some("orders")}

----------------------------------------------------------------------------
(* Specification of the conversion of a Pydantic suite *)

InitConv ==
    /\ rule = NoRule
    /\ built = NoRule
    /\ suite \in Suites
    /\ gx_suite = NoSuite
    /\ files = NoFile
    /\ payload = NoPayload
    /\ prev = NoOut
    /\ process = NoProcess
    /\ out = NoOut

\* suite.expectations[i].severity = v: the wrapper sets no model_config either,
\* so the value is stored without a check against the Literal; the suite gets
\* one such edit, before any operation of the manager
OtherSeverities == {"fatal"}

SetSeverity(i, v) ==
    /\ out = NoOut
    /\ i \in DOMAIN suite
    /\ suite[i].severity # v
    /\ suite' = [suite EXCEPT ![i].severity = v]
    /\ out' = [op |-> "setattr"]
    /\ UNCHANGED <<process, rule, built, gx_suite, files, payload, prev>>

\* gx_suite = manager.pydantic_to_gx_suite(suite, suite_name)
ToGx(suite_name, engine_accepts) ==
    LET r == pydantic_to_gx_suite(suite, suite_name, engine_accepts)
    IN  /\ gx_suite' = IF r.ok THEN r.value ELSE gx_suite
        /\ out' = [op |-> "pydantic_to_gx_suite", ok |-> r.ok, suite_name |-> suite_name]
                    @@ (IF r.ok THEN EmptyDict ELSE [error |-> r.error])
        /\ UNCHANGED <<process, rule, built, suite, files, payload, prev>>

\* manager.gx_suite_to_pydantic(gx_suite)
FromGx ==
    /\ gx_suite # NoSuite
    /\ out' = [op |-> "gx_suite_to_pydantic"] @@ gx_suite_to_pydantic(gx_suite)
    /\ UNCHANGED <<process, rule, built, suite, gx_suite, files, payload, prev>>

\* manager.validate_gx_suite(gx_suite)
ValidateGx ==
    /\ gx_suite # NoSuite
    /\ out' = [op |-> "validate_gx_suite"] @@ validate_gx_suite(gx_suite)
    /\ UNCHANGED <<process, rule, built, suite, gx_suite, files, payload, prev>>

\* manager.validate_pydantic_suite(suite)
ValidatePydantic(engine_accepts) ==
    /\ \E sources \in list_of_set(SourceSet(suite)) :
          out' = [op |-> "validate_pydantic_suite", input |-> suite,
                  engine_accepts |-> engine_accepts]
                   @@ validate_pydantic_suite(suite, engine_accepts, sources)
    /\ UNCHANGED <<process, rule, built, suite, gx_suite, files, payload, prev>>

\* manager.get_suite_summary(suite)
Summary ==
    /\ \E sources \in list_of_set(SourceSet(suite)) :
          out' = [op |-> "get_suite_summary", input |-> suite,
                  value |-> get_suite_summary(suite, sources)]
    /\ UNCHANGED <<process, rule, built, suite, gx_suite, files, payload, prev>>

NextConv ==
    \/ \E i \in 1 .. MaxRules : \E v \in OtherSeverities : SetSeverity(i, v)
    \/ \E suite_name \in SuiteNames : \E engine_accepts \in BOOLEAN :
          ToGx(suite_name, engine_accepts)
    \/ FromGx
    \/ ValidateGx
    \/ \E engine_accepts \in BOOLEAN : ValidatePydantic(engine_accepts)
    \/ Summary

SpecConv == InitConv /\ [][NextConv]_vars

----------------------------------------------------------------------------
(* Claims on the conversion of a Pydantic suite *)

\* C1: converting a valid Suite to the native form and back gives a Suite with
\* the same number of rules and, at every position, the same rule kind, the
\* same parameter values and the same id, description and source.
C1_RoundTrip ==
    out.op = "gx_suite_to_pydantic" =>
        /\ out.ok
        /\ Len(out.value) = Len(suite)
        /\ \A i \in DOMAIN suite :
              /\ out.value[i].expectation["expectation_type"]
                    = suite[i].expectation["expectation_type"]
              /\ out.value[i].expectation = suite[i].expectation
              /\ out.value[i].id = suite[i].id
              /\ out.value[i].description = suite[i].description
              /\ out.value[i].source = suite[i].source

\* C1 witness: a two-rule suite whose second rule has only an upper bound and
\* an unset `mostly` has gone through both conversions
C1_Witness ==
    /\ out.op = "gx_suite_to_pydantic" /\ out.ok
    /\ Len(suite) = 2 /\ Len(out.value) = 2
    /\ suite[2].expectation["expectation_type"] = ExpectColumnValuesToBeBetween
    /\ suite[2].expectation["min_value"] = None
    /\ suite[2].expectation["mostly"] = None
    /\ suite[1].id = "id_b"

\* C12: severity is one-way: every Rule-With-Metadata produced by
\* gx_suite_to_pydantic has severity critical, whatever the native rule's
\* severity, so fromNative(toNative(s)) has severity critical at every
\* position, also where s had warning or info.
C12_SeverityNotCarriedBack ==
    (out.op = "gx_suite_to_pydantic" /\ out.ok) =>
        \A i \in DOMAIN out.value : out.value[i].severity = "critical"

\* C12 witness: a suite whose first rule has severity warning and whose second
\* has severity info went to the native form, which carries WARNING and INFO,
\* and came back
C12_Witness ==
    /\ out.op = "gx_suite_to_pydantic" /\ out.ok
    /\ Len(suite) = 2 /\ Len(out.value) = 2
    /\ suite[1].severity = "warning" /\ gx_suite.expectations[1].severity = WARNING
    /\ suite[2].severity = "info" /\ gx_suite.expectations[2].severity = INFO
    /\ out.value[1].severity = "critical" /\ out.value[2].severity = "critical"

\* one conversion to the native form and back, under the name given
RoundTrip(s, suite_name) ==
    LET g == pydantic_to_gx_suite(s, suite_name, TRUE)
    IN  IF g.ok THEN gx_suite_to_pydantic(g.value) ELSE g

\* C29: the conversion round trip is a fixed point after one pass: for every
\* valid Suite s, with r = fromNative(toNative(s)), fromNative(toNative(r)) is
\* field-for-field equal to r (including severity, which is critical
\* everywhere in r), and so is the result of a further pass.
C29_RoundTripFixedPoint ==
    (out.op = "gx_suite_to_pydantic" /\ out.ok) =>
        LET r == out.value
        IN  /\ \A i \in DOMAIN r : r[i].severity = "critical"
            /\ \A suite_name \in SuiteNames :
                  LET r2 == RoundTrip(r, suite_name)
                  IN  /\ r2.ok /\ r2.value = r
                      /\ \A other \in SuiteNames :
                            LET r3 == RoundTrip(r2.value, other)
                            IN  r3.ok /\ r3.value = r

\* C29 witness: a suite with a warning rule and an info rule went to the native
\* form and back; the result differs from the suite and a second pass returns
\* the result unchanged
C29_Witness ==
    /\ out.op = "gx_suite_to_pydantic" /\ out.ok
    /\ Len(suite) = 2
    /\ suite[1].severity = "warning" /\ suite[2].severity = "info"
    /\ out.value # suite
    /\ RoundTrip(suite, None).value = out.value
    /\ RoundTrip(out.value, None).value = out.value

\* C13: pydantic_to_gx_suite produces one native configuration per
\* Rule-With-Metadata, in the same order; the i-th configuration has the i-th
\* rule's kind identifier as type tag, all fields of the rule except
\* expectation_type as kwargs (type_ under the name type_) and
\* {expectation_id: id, description, source} as meta; the suite-level
\* total_expectations equals the number of rules.
C13_ForwardConversionShape ==
    (out.op = "pydantic_to_gx_suite" /\ out.ok) =>
        /\ Len(gx_suite.expectations) = Len(suite)
        /\ \A i \in DOMAIN suite :
              LET cfg == gx_suite.expectations[i]
                  r == suite[i].expectation
              IN  /\ cfg.type = r["expectation_type"]
                  /\ DOMAIN cfg.kwargs = DOMAIN r \ {"expectation_type"}
                  /\ \A k \in DOMAIN cfg.kwargs : cfg.kwargs[k] = r[k]
                  /\ DOMAIN cfg.meta = {"expectation_id", "description", "source"}
                  /\ cfg.meta["expectation_id"] = suite[i].id
                  /\ cfg.meta["description"] = suite[i].description
                  /\ cfg.meta["source"] = suite[i].source
        /\ gx_suite.meta["total_expectations"] = Len(suite)

\* C13 witness: a ranged rule followed by a type rule has been converted; the
\* second configuration carries the key type_
C13_Witness ==
    /\ out.op = "pydantic_to_gx_suite" /\ out.ok
    /\ Len(suite) = 2 /\ Len(gx_suite.expectations) = 2
    /\ suite[1].expectation["expectation_type"] = ExpectColumnValuesToBeBetween
    /\ suite[2].expectation["expectation_type"] = ExpectColumnValuesToBeOfType
    /\ gx_suite.expectations[2].kwargs["type_"] = "int"
    /\ gx_suite.expectations[1].kwargs["max_value"] = None
    /\ gx_suite.meta["total_expectations"] = 2

\* C14: the forward severity mapping is total: warning gives native WARNING,
\* info gives native INFO, every other value (critical included) gives native
\* CRITICAL; it is injective on {critical, warning, info}.
C14_SeverityMappingTotal ==
    (out.op = "pydantic_to_gx_suite" /\ out.ok) =>
        /\ Len(gx_suite.expectations) = Len(suite)
        /\ \A i \in DOMAIN suite :
              gx_suite.expectations[i].severity
                 = CASE suite[i].severity = "warning" -> "FailureSeverity.WARNING"
                     [] suite[i].severity = "info" -> "FailureSeverity.INFO"
                     [] OTHER -> "FailureSeverity.CRITICAL"
        /\ \A i, j \in DOMAIN suite :
              (/\ suite[i].severity \in {"critical", "warning", "info"}
               /\ suite[j].severity \in {"critical", "warning", "info"}
               /\ suite[i].severity # suite[j].severity)
                 => gx_suite.expectations[i].severity # gx_suite.expectations[j].severity

\* C14 witness: a rule whose severity was assigned a value outside the three
\* and a warning rule have been converted to CRITICAL and WARNING
C14_Witness ==
    /\ out.op = "pydantic_to_gx_suite" /\ out.ok
    /\ Len(suite) = 2
    /\ suite[1].severity = "fatal" /\ suite[2].severity = "warning"
    /\ gx_suite.expectations[1].severity = CRITICAL
    /\ gx_suite.expectations[2].severity = WARNING

\* C20: validate_pydantic_suite never raises: on success it returns the result
\* of validate_gx_suite(pydantic_to_gx_suite(s)) with the suite summary
\* attached under the key pydantic_summary; if the conversion raises, it
\* returns (False, report) where report carries error, source and a timestamp.
C20_ValidatePydanticNeverRaises ==
    out.op = "validate_pydantic_suite" =>
        /\ {"is_valid", "report"} \subseteq DOMAIN out
        /\ "error" \notin DOMAIN out
        /\ out.engine_accepts =>
              LET v == validate_gx_suite(pydantic_to_gx_suite(suite, None, TRUE).value)
              IN  /\ out.is_valid = v.is_valid
                  /\ DOMAIN out.report = DOMAIN v.report \cup {"source", "pydantic_summary"}
                  /\ \A k \in DOMAIN v.report : out.report[k] = v.report[k]
                  /\ \E l \in list_of_set(SourceSet(suite)) :
                        out.report["pydantic_summary"] = get_suite_summary(suite, l)
        /\ ~out.engine_accepts =>
              /\ out.is_valid = FALSE
              /\ DOMAIN out.report = {"is_valid", "error", "source", "validated_at"}
              /\ out.report["is_valid"] = FALSE
              /\ out.report["error"] = "ExpectationManagerError"

\* C20 witness: the engine refused the conversion of a two-rule suite and
\* validate_pydantic_suite returned the failure report
C20_Witness ==
    /\ out.op = "validate_pydantic_suite"
    /\ ~out.engine_accepts
    /\ Len(suite) = 2
    /\ out.is_valid = FALSE
    /\ out.report["error"] = "ExpectationManagerError"
    /\ out.report["source"] = "Pydantic Suite Validation"

KindOf(e) == e.expectation["expectation_type"]

\* C30: for every constructible Suite s whose conversion succeeds,
\* validate_pydantic_suite(s) returns true if and only if s has at least one
\* rule: every rule kind a Suite can hold is in the validator's supported set,
\* and because pydantic_to_gx_suite substitutes a generated non-empty name when
\* no name is given, the report never contains the 'Suite has no name' warning.
C30_ValidIffNonEmpty ==
    (out.op = "validate_pydantic_suite" /\ out.engine_accepts) =>
        /\ out.is_valid <=> Len(out.input) >= 1
        /\ \A i \in DOMAIN out.input : KindOf(out.input[i]) \in supported_types
        /\ \A i \in DOMAIN GreatExpectation : GreatExpectation[i] \in supported_types
        /\ Len(out.report.expectation_details) = Len(out.input)
        /\ \A i \in DOMAIN out.report.expectation_details :
              out.report.expectation_details[i].is_valid
        /\ out.report.suite_name = GeneratedName /\ out.report.suite_name # ""
        /\ \A k \in DOMAIN out.report.validation_warnings :
              out.report.validation_warnings[k] # "Suite has no name"

\* C30 witness: a suite whose second rule is of the kind declared last in the
\* Union has been converted and validated, and is reported valid under the
\* generated name
C30_Witness ==
    /\ out.op = "validate_pydantic_suite" /\ out.engine_accepts
    /\ Len(out.input) = 2
    /\ KindOf(out.input[2]) = ExpectColumnSumToBeBetween
    /\ out.is_valid
    /\ out.report.suite_name = GeneratedName
    /\ out.report.validation_warnings = <<>>

RECURSIVE SumOf(_)
SumOf(counts) ==
    IF DOMAIN counts = {} THEN 0
    ELSE LET k == CHOOSE x \in DOMAIN counts : TRUE
         IN  counts[k] + SumOf([x \in DOMAIN counts \ {k} |-> counts[x]])

\* C11: get_suite_summary returns total_expectations equal to the number of
\* rules, expectation_types mapping each kind present to its number of
\* occurrences (the counts sum to the total and none is 0), expectation_ids
\* equal to the rule ids in suite order with duplicates kept, and sources
\* holding each distinct source exactly once; the suite is left unchanged.
C11_SummaryCorrect ==
    out.op = "get_suite_summary" =>
        LET v == out.value
            kinds == {KindOf(suite[i]) : i \in DOMAIN suite}
        IN  /\ v.total_expectations = Len(suite)
            /\ DOMAIN v.expectation_types = kinds
            /\ \A t \in kinds :
                  /\ v.expectation_types[t]
                        = Cardinality({i \in DOMAIN suite : KindOf(suite[i]) = t})
                  /\ v.expectation_types[t] > 0
            /\ SumOf(v.expectation_types) = v.total_expectations
            /\ Len(v.expectation_ids) = Len(suite)
            /\ \A i \in DOMAIN suite : v.expectation_ids[i] = suite[i].id
            /\ \A i \in DOMAIN suite : \E k \in DOMAIN v.sources : v.sources[k] = suite[i].source
            /\ \A k \in DOMAIN v.sources : \E i \in DOMAIN suite : v.sources[k] = suite[i].source
            /\ \A k, l \in DOMAIN v.sources : v.sources[k] = v.sources[l] => k = l
            /\ suite = out.input

\* C11 witness: two rules of one kind under one id and two sources have been
\* summarised, the sources listed in the order opposite to the suite's
C11_Witness ==
    /\ out.op = "get_suite_summary"
    /\ Len(suite) = 2
    /\ KindOf(suite[1]) = KindOf(suite[2])
    /\ suite[1].id = suite[2].id
    /\ out.value.expectation_types[KindOf(suite[1])] = 2
    /\ out.value.expectation_ids = <<"id_a", "id_a">>
    /\ out.value.sources = <<suite[2].source, suite[1].source>>

----------------------------------------------------------------------------
(* Inputs of the validator and of the reverse conversion: native suites *)

\* a real engine tag that neither table of the manager lists
ExpectColumnValuesToBeNull == "expect_column_values_to_be_null"

NativeTags ==
    expectation_mapping
    \cup {ExpectColumnValuesToMatchStrftimeFormat, ExpectColumnValuesToBeNull}

\* parameters that satisfy the kind's declaration
TypicalKwargs(tag) ==
    CASE tag = ExpectCompoundColumnsToBeUnique -> [column_list |-> <<"a", "b">>]
      [] tag = ExpectColumnValuesToBeInSet -> [column |-> "a", value_set |-> <<0, 1>>]
      [] tag = ExpectColumnValuesToMatchRegex -> [column |-> "a", regex |-> "^x$"]
      [] tag = ExpectColumnValuesToBeOfType -> [column |-> "a", type_ |-> "int"]
      [] tag = ExpectTableRowCountToBeBetween -> [min_value |-> Some(0)]
      [] tag \in WithBoundValidator \ {ExpectTableRowCountToBeBetween} ->
            [column |-> "a", max_value |-> Some(MaxNum)]
      [] OTHER -> [column |-> "a"]

FullMeta == [expectation_id |-> "id_a", description |-> "about id_a", source |-> "Documentation"]

\* the metadata mappings with any subset of the three keys
NativeMetas == {[k \in keys |-> FullMeta[k]] : keys \in SUBSET DOMAIN FullMeta}

\* every tag with typical parameters, one tag under every metadata mapping and
\* every severity, and one ranged rule without any bound
NativeConfigs ==
    {ExpectationConfiguration(tag, TypicalKwargs(tag), FullMeta, CRITICAL) : tag \in NativeTags}
    \cup {ExpectationConfiguration(ExpectColumnToExist, [column |-> "a"], m, CRITICAL) :
            m \in NativeMetas}
    \cup {ExpectationConfiguration(ExpectColumnToExist, [column |-> "a"], FullMeta, sev) :
            sev \in {WARNING, INFO}}
    \cup {ExpectationConfiguration(ExpectColumnValuesToBeBetween, [column |-> "a"],
                                   FullMeta, CRITICAL)}

NativeSuites ==
    {ExpectationSuite(name, exps, EmptyDict) :
        name \in {"", "orders"},
        exps \in UNION {[1 .. n -> NativeConfigs] : n \in 0 .. MaxRules}}

InsertAt(seq, pos, e) == SubSeq(seq, 1, pos - 1) \o <<e>> \o SubSeq(seq, pos, Len(seq))

----------------------------------------------------------------------------
(* Specification of the operations on a native suite; the engine is up *)

InitNative ==
    /\ rule = NoRule
    /\ built = NoRule
    /\ suite = <<>>
    /\ gx_suite \in NativeSuites
    /\ files = NoFile
    /\ payload = NoPayload
    /\ prev = NoOut
    /\ process = NoProcess
    /\ out = NoOut

\* a rule configuration is added to a suite that has been validated; prev keeps
\* the verdict on the suite as it was and the configuration added
InsertConfig(pos, cfg) ==
    /\ gx_suite # NoSuite
    /\ out.op = "validate_gx_suite"
    /\ Len(gx_suite.expectations) < MaxRules
    /\ pos \in 1 .. Len(gx_suite.expectations) + 1
    /\ gx_suite' = [gx_suite EXCEPT !.expectations = InsertAt(@, pos, cfg)]
    /\ prev' = [op |-> "validate_gx_suite", is_valid |-> out.is_valid, added |-> cfg]
    /\ out' = [op |-> "insert"]
    /\ UNCHANGED <<process, rule, built, suite, files, payload>>

NextNative ==
    \/ FromGx
    \/ ValidateGx
    \/ ValidatePydantic(TRUE)
    \/ \E pos \in 1 .. MaxRules : \E cfg \in NativeConfigs : InsertConfig(pos, cfg)

SpecNative == InitNative /\ [][NextNative]_vars

----------------------------------------------------------------------------
(* Claims on the operations on a native suite *)

\* the tags of the lookup table of _create_pydantic_expectation
LookupTags ==
    { "expect_column_to_exist", "expect_column_values_to_not_be_null",
      "expect_column_values_to_be_unique", "expect_compound_columns_to_be_unique",
      "expect_column_values_to_be_in_set", "expect_column_values_to_match_regex",
      "expect_column_values_to_be_between", "expect_column_values_to_be_of_type",
      "expect_column_mean_to_be_between", "expect_table_row_count_to_be_between",
      "expect_column_min_to_be_between", "expect_column_max_to_be_between",
      "expect_column_sum_to_be_between" }

\* the supported-kind set of the validator
SupportedTags == LookupTags \cup {"expect_column_values_to_match_strftime_format"}

\* C5: gx_suite_to_pydantic on a native suite that holds, at any position, a
\* rule whose tag is not in the lookup table fails with ExpectationManagerError
\* and returns no Suite, not even the rules converted before the offending one.
C5_UnsupportedKindRejected ==
    (/\ out.op = "gx_suite_to_pydantic"
     /\ \E i \in DOMAIN gx_suite.expectations : gx_suite.expectations[i].type \notin LookupTags)
        => /\ ~out.ok
           /\ out.error = "ExpectationManagerError"
           /\ "value" \notin DOMAIN out

\* C5 witness: the first rule converts, the second has an unknown tag, and the
\* conversion has failed
C5_Witness ==
    /\ out.op = "gx_suite_to_pydantic" /\ ~out.ok
    /\ Len(gx_suite.expectations) = 2
    /\ _gx_config_to_pydantic_expectation(gx_suite.expectations[1], 0).ok
    /\ gx_suite.expectations[2].type = ExpectColumnValuesToBeNull

\* C15: in gx_suite_to_pydantic, for the native rule at 0-based position i, id
\* is the meta's expectation_id if present and exp_<i+1> otherwise, description
\* is the meta's description if present and 'Expectation for <type tag>'
\* otherwise, source is the meta's source if present and 'GX Suite Import'
\* otherwise; each default applies on its own and only when its key is absent.
C15_MetadataDefaults ==
    (out.op = "gx_suite_to_pydantic" /\ out.ok) =>
        /\ Len(out.value) = Len(gx_suite.expectations)
        /\ \A p \in DOMAIN gx_suite.expectations :
              LET cfg == gx_suite.expectations[p]
                  i == p - 1
              IN  /\ out.value[p].id
                        = IF "expectation_id" \in DOMAIN cfg.meta
                          THEN cfg.meta["expectation_id"]
                          ELSE "exp_" \o ToString(i + 1)
                  /\ out.value[p].description
                        = IF "description" \in DOMAIN cfg.meta
                          THEN cfg.meta["description"]
                          ELSE "Expectation for " \o cfg.type
                  /\ out.value[p].source
                        = IF "source" \in DOMAIN cfg.meta
                          THEN cfg.meta["source"]
                          ELSE "GX Suite Import"

\* C15 witness: the second rule of a suite has a description but neither id
\* nor source in its meta, and got the generated id of its position and the
\* default source
C15_Witness ==
    /\ out.op = "gx_suite_to_pydantic" /\ out.ok
    /\ Len(gx_suite.expectations) = 2
    /\ DOMAIN gx_suite.expectations[2].meta = {"description"}
    /\ out.value[2].id = "exp_2"
    /\ out.value[2].description = "about id_a"
    /\ out.value[2].source = "GX Suite Import"
    /\ out.value[1].id = "id_a"

\* the rule kinds of the data model
RuleKindTags ==
    { "expect_column_to_exist", "expect_column_values_to_not_be_null",
      "expect_column_values_to_be_unique", "expect_compound_columns_to_be_unique",
      "expect_column_values_to_be_in_set", "expect_column_values_to_match_regex",
      "expect_column_values_to_be_between", "expect_column_values_to_be_of_type",
      "expect_column_mean_to_be_between", "expect_table_row_count_to_be_between",
      "expect_column_min_to_be_between", "expect_column_max_to_be_between",
      "expect_column_sum_to_be_between" }

\* C16: for every rule kind of the data model, gx_suite_to_pydantic on a native
\* suite holding one rule with that kind's tag and parameters satisfying the
\* kind's constraints succeeds and yields a Suite whose single entry is a Rule
\* of that kind.
C16_LookupMirrorsKinds ==
    (/\ out.op = "gx_suite_to_pydantic"
     /\ Len(gx_suite.expectations) = 1
     /\ gx_suite.expectations[1].type \in RuleKindTags
     /\ gx_suite.expectations[1].kwargs = TypicalKwargs(gx_suite.expectations[1].type))
        => /\ out.ok
           /\ Len(out.value) = 1
           /\ out.value[1].expectation["expectation_type"] = gx_suite.expectations[1].type

\* C6: validate_gx_suite returns true exactly when the suite has at least one
\* rule and every rule's tag is in the supported-kind set, and the boolean
\* returned equals the report's is_valid.
C6_ValidIffNonEmptyAndSupported ==
    out.op = "validate_gx_suite" =>
        /\ out.is_valid <=>
              (/\ Len(gx_suite.expectations) >= 1
               /\ \A i \in DOMAIN gx_suite.expectations :
                     gx_suite.expectations[i].type \in SupportedTags)
        /\ out.is_valid = out.report.is_valid

\* C6 witness: a suite with an unsupported first rule and a supported second
\* rule has been validated and found invalid
C6_Witness ==
    /\ out.op = "validate_gx_suite" /\ ~out.is_valid
    /\ Len(gx_suite.expectations) = 2
    /\ gx_suite.expectations[1].type \notin SupportedTags
    /\ gx_suite.expectations[2].type \in SupportedTags

\* C7: validating a suite with 0 rules, through validate_gx_suite or through
\* validate_pydantic_suite on an empty Suite, yields is_valid = False and a
\* non-empty validation_errors list.
C7_EmptySuiteInvalid ==
    (\/ out.op = "validate_gx_suite" /\ Len(gx_suite.expectations) = 0
     \/ out.op = "validate_pydantic_suite" /\ Len(suite) = 0)
        => /\ ~out.is_valid
           /\ ~out.report.is_valid
           /\ "validation_errors" \in DOMAIN out.report
           /\ Len(out.report.validation_errors) > 0

\* C7 witness: the empty Suite has been validated through validate_pydantic_suite
C7_Witness ==
    /\ out.op = "validate_pydantic_suite" /\ Len(suite) = 0
    /\ ~out.is_valid
    /\ out.report.validation_errors = <<"Suite has no expectations">>

\* C25: in validate_gx_suite all checks are evaluated without short-circuit: a
\* suite with an empty name gets the warning 'Suite has no name' but is not made
\* invalid by it, and the report always holds one detail record per rule with
\* index equal to the rule's position and total_expectations equal to the
\* number of detail records, even when an earlier rule is unsupported or the
\* name is missing.
C25_AllChecksEvaluated ==
    out.op = "validate_gx_suite" =>
        LET es == gx_suite.expectations
            ds == out.report.expectation_details
        IN  /\ out.report.validation_warnings
                  = IF gx_suite.name = "" THEN <<"Suite has no name">> ELSE <<>>
            /\ out.report.validation_errors
                  = IF Len(es) = 0 THEN <<"Suite has no expectations">> ELSE <<>>
            /\ (/\ Len(es) >= 1
                /\ \A i \in DOMAIN es : es[i].type \in supported_types) => out.is_valid
            /\ Len(ds) = Len(es)
            /\ out.report.total_expectations = Len(ds)
            /\ \A i \in DOMAIN ds :
                  /\ ds[i].index = i - 1
                  /\ ds[i].expectation_type = es[i].type
                  /\ ds[i].is_valid <=> es[i].type \in supported_types
                  /\ Len(ds[i].errors) = IF ds[i].is_valid THEN 0 ELSE 1

\* C25 witness: a suite without a name whose first rule is unsupported and whose
\* second rule is supported has been validated; the report carries the warning
\* and both detail records
C25_Witness ==
    /\ out.op = "validate_gx_suite"
    /\ gx_suite.name = ""
    /\ Len(gx_suite.expectations) = 2
    /\ gx_suite.expectations[1].type \notin supported_types
    /\ gx_suite.expectations[2].type \in supported_types
    /\ Len(out.report.expectation_details) = 2
    /\ out.report.expectation_details[2].is_valid
    /\ out.report.validation_warnings = <<"Suite has no name">>
    /\ ~out.is_valid

\* a one-rule suite with typical parameters has been reported valid and does
\* not convert back
ValidButNotConvertible ==
    /\ out.op = "validate_gx_suite" /\ out.is_valid
    /\ Len(gx_suite.expectations) = 1
    /\ gx_suite.expectations[1].kwargs = TypicalKwargs(gx_suite.expectations[1].type)
    /\ ~gx_suite_to_pydantic(gx_suite).ok

\* C26: the validator's supported-kind set has 14 tags and is a strict superset
\* of the tags gx_suite_to_pydantic accepts: exactly one tag
\* (expect_column_values_to_match_strftime_format) is accepted by
\* validate_gx_suite but makes gx_suite_to_pydantic fail, and every tag
\* gx_suite_to_pydantic accepts is accepted by validate_gx_suite; so a suite
\* reported valid is not guaranteed to convert back.
C26_OneLegacyTag ==
    /\ Cardinality(supported_types) = 14
    /\ expectation_mapping \subseteq supported_types
    /\ expectation_mapping # supported_types
    /\ ValidButNotConvertible
          => gx_suite.expectations[1].type = ExpectColumnValuesToMatchStrftimeFormat
    /\ (out.op = "gx_suite_to_pydantic" /\ out.ok)
          => \A i \in DOMAIN gx_suite.expectations :
                gx_suite.expectations[i].type \in supported_types

\* C26, the part that holds: the tags reported valid that do not convert back
\* are the legacy tag and the compound-columns tag, whose class is not a member
\* of the Union
C26_TwoTagsDoNotConvert ==
    /\ Cardinality(supported_types) = 14
    /\ expectation_mapping \subseteq supported_types
    /\ ValidButNotConvertible
          => gx_suite.expectations[1].type
                \in {ExpectColumnValuesToMatchStrftimeFormat, ExpectCompoundColumnsToBeUnique}
    /\ (out.op = "gx_suite_to_pydantic" /\ out.ok)
          => \A i \in DOMAIN gx_suite.expectations :
                gx_suite.expectations[i].type \in supported_types

\* C8: if a suite was reported valid, the suite obtained by adding one rule of
\* a supported kind with well-formed parameters, at any position, is reported
\* valid too.
C8_ValidatorMonotone ==
    (/\ out.op = "validate_gx_suite"
     /\ prev.op = "validate_gx_suite"
     /\ prev.is_valid
     /\ prev.added.type \in SupportedTags
     /\ prev.added.kwargs = TypicalKwargs(prev.added.type))
        => out.is_valid

\* C8 witness: a valid one-rule suite got a supported rule inserted in front of
\* its rule and was validated again
C8_Witness ==
    /\ out.op = "validate_gx_suite" /\ out.is_valid
    /\ prev.op = "validate_gx_suite" /\ prev.is_valid
    /\ Len(gx_suite.expectations) = 2
    /\ gx_suite.expectations[1] = prev.added
    /\ prev.added.type = ExpectCompoundColumnsToBeUnique
    /\ gx_suite.expectations[2].type # prev.added.type

----------------------------------------------------------------------------
(* Specification of the serialisation layer *)

InitSer ==
    /\ rule = NoRule
    /\ built = NoRule
    /\ suite \in Suites
    /\ gx_suite = NoSuite
    /\ files = NoFile
    /\ payload = NoPayload
    /\ prev = NoOut
    /\ process = NoProcess
    /\ out = NoOut

OutputPaths == {None, Some("suite.txt")}

\* manager.serialize_to_json(suite, output_path)
SerializeJson(output_path) ==
    LET r == serialize_to_json(suite, output_path)
    IN  /\ files' = IF r.write THEN r.value ELSE files
        /\ out' = [op |-> "serialize_to_json", ok |-> r.ok, value |-> r.value]
        /\ UNCHANGED <<process, rule, built, suite, gx_suite, payload, prev>>

\* manager.serialize_to_yaml(suite, output_path)
SerializeYaml(output_path) ==
    LET r == serialize_to_yaml(suite, output_path)
    IN  /\ files' = IF r.write THEN r.value ELSE files
        /\ out' = [op |-> "serialize_to_yaml", ok |-> r.ok, value |-> r.value]
        /\ UNCHANGED <<process, rule, built, suite, gx_suite, payload, prev>>

IsText(o) == o.op \in {"serialize_to_json", "serialize_to_yaml"}

\* manager.deserialize_from_json(input, is_file): of the file at the path, or of
\* the string the last serialisation returned
DeserializeJson(is_file) ==
    /\ is_file \/ IsText(out)
    /\ LET input == IF is_file THEN files ELSE out.value
       IN  out' = [op |-> "deserialize_from_json", is_file |-> is_file, input |-> input]
                    @@ deserialize_from_json(input)
    /\ UNCHANGED <<process, rule, built, suite, gx_suite, files, payload, prev>>

\* manager.deserialize_from_yaml(input, is_file)
DeserializeYaml(is_file) ==
    /\ is_file \/ IsText(out)
    /\ LET input == IF is_file THEN files ELSE out.value
       IN  out' = [op |-> "deserialize_from_yaml", is_file |-> is_file, input |-> input]
                    @@ deserialize_from_yaml(input)
    /\ UNCHANGED <<process, rule, built, suite, gx_suite, files, payload, prev>>

NextSer ==
    \/ \E output_path \in OutputPaths : SerializeJson(output_path)
    \/ \E output_path \in OutputPaths : SerializeYaml(output_path)
    \/ \E is_file \in BOOLEAN : DeserializeJson(is_file)
    \/ \E is_file \in BOOLEAN : DeserializeYaml(is_file)

SpecSer == InitSer /\ [][NextSer]_vars

----------------------------------------------------------------------------
(* Claims on the serialisation layer *)

\* C2: for every valid Suite s, deserialize(serialize(s)) is field-for-field
\* equal to s, for the JSON encoding and for the YAML encoding, through the
\* returned string and through a saved file.
C2_SerializationRoundTrip ==
    (\/ out.op = "deserialize_from_json" /\ out.input # NoFile /\ out.input.encoding = "json"
     \/ out.op = "deserialize_from_yaml" /\ out.input # NoFile /\ out.input.encoding = "yaml")
        => out.ok /\ out.value = suite

\* the position of a field in the declaration of its class
FieldPos(cls, f) == CHOOSE p \in DOMAIN ModelFields(cls) : ModelFields(cls)[p] = f

\* C17: serialize_to_json and serialize_to_yaml emit no key for a field whose
\* value is None, never a null placeholder, and emit the rules, their keys and
\* the list-valued parameters in the same order as in the Suite.
C17_NoNullKeysOrderKept ==
    (out.op \in {"serialize_to_json", "serialize_to_yaml"}) =>
        LET text == out.value
            es == text.doc["expectations"]
        IN  /\ out.ok
            /\ Len(es) = Len(suite)
            /\ DOMAIN text.keys = DOMAIN suite
            /\ \A i \in DOMAIN suite :
                  LET r == suite[i].expectation
                      cls == r["expectation_type"]
                      d == es[i]["expectation"]
                      ks == text.keys[i].expectation
                  IN  /\ es[i]["id"] = suite[i].id
                      /\ es[i]["description"] = suite[i].description
                      /\ DOMAIN d = {k \in DOMAIN r :
                                        ~(k \in {"min_value", "max_value", "mostly"}
                                          /\ r[k] = None)}
                      /\ \A k \in DOMAIN d : d[k] = r[k]
                      /\ \A k \in DOMAIN d \cap {"min_value", "max_value", "mostly"} :
                            d[k] # None
                      /\ {ks[a] : a \in DOMAIN ks} = DOMAIN d
                      /\ \A a, b \in DOMAIN ks :
                            a < b => FieldPos(cls, ks[a]) < FieldPos(cls, ks[b])
                      /\ text.keys[i].entry
                            = <<"id", "expectation", "description", "source", "severity">>

\* C17 witness: a value-set rule with the values in descending order and an
\* unset `mostly`, followed by a ranged rule with no upper bound, has been
\* written as YAML
C17_Witness ==
    /\ out.op = "serialize_to_yaml" /\ out.ok
    /\ Len(suite) = 2
    /\ suite[1].expectation["expectation_type"] = ExpectColumnValuesToBeInSet
    /\ suite[1].expectation["mostly"] = None
    /\ out.value.doc["expectations"][1]["expectation"]["value_set"] = <<1, 0>>
    /\ out.value.keys[1].expectation = <<"expectation_type", "column", "value_set">>
    /\ suite[2].expectation["expectation_type"] = ExpectColumnValuesToBeBetween
    /\ suite[2].expectation["max_value"] = None
    /\ out.value.keys[2].expectation = <<"expectation_type", "column", "min_value", "mostly">>

----------------------------------------------------------------------------
(* Inputs of the loader: documents written by hand or by another program *)

\* a rule as a decoded dict: the tag of a Union member with every choice of
\* its parameters (each left out or given, in range or not), a tag of no
\* member, and the tag of the compound kind
ExpectationDicts ==
    UNION { {("expectation_type" :> GreatExpectation[i]) @@ d :
                d \in RuleInputs(GreatExpectation[i])} : i \in DOMAIN GreatExpectation }
    \cup {[expectation_type |-> ExpectColumnValuesToBeNull, column |-> "a"],
          [expectation_type |-> ExpectColumnValuesToMatchStrftimeFormat, column |-> "a"],
          [expectation_type |-> ExpectCompoundColumnsToBeUnique, column_list |-> <<"a", "b">>]}

EntryOf(expectation) ==
    [id |-> "id_a", expectation |-> expectation, description |-> "about id_a",
     source |-> "Documentation", severity |-> "warning"]

GoodEntry == EntryOf([expectation_type |-> ExpectColumnToExist, column |-> "a"])

\* every rule dict under complete metadata, and one rule under metadata with
\* one key missing or a severity outside the Literal
EntryDicts ==
    {EntryOf(x) : x \in ExpectationDicts}
    \cup {Without(GoodEntry, k) : k \in DOMAIN GoodEntry}
    \cup {[GoodEntry EXCEPT !["severity"] = "fatal"]}

\* the entries that take the other positions of a document
FewEntries ==
    { GoodEntry,
      EntryOf([expectation_type |-> ExpectColumnValuesToBeNull, column |-> "a"]),
      EntryOf([expectation_type |-> ExpectColumnValuesToBeBetween, column |-> "a"]) }

\* the document with the entries es, entry i replaced by e
DocumentOf(es, i, e) == [expectations |-> [es EXCEPT ![i] = e]]

\* documents without an entry and without the key `expectations`
OddDocuments == {[expectations |-> <<>>], [suite |-> "orders"]}

----------------------------------------------------------------------------
(* Specification of the loader: a file of unknown origin is deserialised; it
   holds up to MaxRules entries, at most one of them outside FewEntries *)

InitLoad ==
    /\ rule = NoRule
    /\ built = NoRule
    /\ suite = <<>>
    /\ gx_suite = NoSuite
    /\ \E enc \in {"json", "yaml"} :
          \/ \E d \in OddDocuments : files = [encoding |-> enc, doc |-> d]
          \/ \E n \in 1 .. MaxRules : \E es \in [1 .. n -> FewEntries] :
                \E i \in 1 .. n : \E e \in EntryDicts :
                   files = [encoding |-> enc, doc |-> DocumentOf(es, i, e)]
    /\ payload = NoPayload
    /\ prev = NoOut
    /\ process = NoProcess
    /\ out = NoOut

NextLoad ==
    \/ DeserializeJson(TRUE)
    \/ DeserializeYaml(TRUE)

SpecLoad == InitLoad /\ [][NextLoad]_vars

----------------------------------------------------------------------------
(* Claims on the loader *)

\* a decoded rule with a tag of no kind, a required parameter missing, no
\* bound where one is needed, or `mostly` outside [0,1]
BadRule(x) ==
    LET tag == x["expectation_type"]
    IN  \/ tag \notin RuleKindTags
        \/ RequiredParams(tag) \ DOMAIN x # {}
        \/ tag \in RangedKinds /\ ~BoundGiven(x, "min_value") /\ ~BoundGiven(x, "max_value")
        \/ /\ tag \in MostlyKinds
           /\ BoundGiven(x, "mostly")
           /\ (x["mostly"][1] < 0 \/ x["mostly"][1] > MostlyUnit)

BadEntry(e) ==
    \/ {"id", "description", "source", "expectation"} \ DOMAIN e # {}
    \/ "expectation" \in DOMAIN e /\ BadRule(e["expectation"])

\* C18: deserialize_from_json and deserialize_from_yaml fail with
\* ExpectationManagerError and return no Suite whenever the decoded structure
\* has a missing required field, an unknown expectation_type or a violated
\* kind invariant at any entry; no rule is repaired or dropped.
C18_MalformedInputRejected ==
    (/\ out.op \in {"deserialize_from_json", "deserialize_from_yaml"}
     /\ out.input # NoFile
     /\ \/ "expectations" \notin DOMAIN out.input.doc
        \/ \E i \in DOMAIN out.input.doc["expectations"] :
              BadEntry(out.input.doc["expectations"][i]))
        => /\ ~out.ok
           /\ out.error = "ExpectationManagerError"
           /\ "value" \notin DOMAIN out

\* C18 witness: a JSON file whose first entry is valid and whose second is a
\* ranged rule without any bound has been refused by the YAML loader
C18_Witness ==
    /\ out.op = "deserialize_from_yaml" /\ ~out.ok
    /\ out.input # NoFile /\ out.input.encoding = "json"
    /\ "expectations" \in DOMAIN out.input.doc
    /\ Len(out.input.doc["expectations"]) = 2
    /\ out.input.doc["expectations"][1] = GoodEntry
    /\ "expectation" \in DOMAIN out.input.doc["expectations"][2]
    /\ out.input.doc["expectations"][2]["expectation"]
          = [expectation_type |-> ExpectColumnValuesToBeBetween, column |-> "a"]

----------------------------------------------------------------------------
(* Inputs of the analyzer: raw validation results *)

\* one result entry as the engine reports it
Entry(type, kwargs, severity, success, percent) ==
    [expectation_config |-> [type |-> type, kwargs |-> kwargs, meta |-> FullMeta,
                             severity |-> severity],
     result |-> [element_count |-> 100, unexpected_count |-> percent,
                 unexpected_percent |-> percent],
     success |-> success]

BaseEntry == Entry(ExpectColumnValuesToNotBeNull, [column |-> "a"], "critical", FALSE, 45)

\* entries of a column rule and of a table rule, passing and failing, under the
\* three severities and one value outside them; and failing entries with one
\* part missing or of another percentage
EntryPool ==
    {Entry(ExpectColumnValuesToNotBeNull, [column |-> "a"], sev, succ,
           IF succ THEN 0 ELSE 45) :
        sev \in {"critical", "warning", "info", "fatal"}, succ \in BOOLEAN}
    \cup {Entry(ExpectTableRowCountToBeBetween, [min_value |-> 1], "critical", succ, 0) :
            succ \in BOOLEAN}
    \cup {Without(BaseEntry, k) : k \in {"success", "result", "expectation_config"}}
    \cup {[BaseEntry EXCEPT !.expectation_config = Without(@, k)] :
            k \in {"meta", "severity", "kwargs"}}
    \cup {[BaseEntry EXCEPT !.result = Without(@, "unexpected_percent")],
          [BaseEntry EXCEPT !.result = @ @@ [missing_count |-> 3]],
          [BaseEntry EXCEPT !.result = @ @@ [partial_unexpected_list |-> <<"x", "y">>]],
          [BaseEntry EXCEPT !.expectation_config.kwargs = [column |-> ""]],
          Entry(ExpectColumnValuesToBeUnique, [column |-> "b"], "warning", FALSE, 10)}

\* entries that differ in outcome, percentage and severity only
RankedPool ==
    { Entry(ExpectColumnValuesToNotBeNull, [column |-> "a"], "critical", TRUE, 0),
      Entry(ExpectColumnValuesToNotBeNull, [column |-> "a"], "critical", FALSE, 10),
      Entry(ExpectColumnValuesToNotBeNull, [column |-> "a"], "warning", FALSE, 45) }

\* the entries of a suite carry the ids of its rules: e1, e2, ...
Stamp(entries) ==
    [i \in DOMAIN entries |->
        IF "expectation_config" \in DOMAIN entries[i]
           /\ "meta" \in DOMAIN entries[i]["expectation_config"]
        THEN [entries[i] EXCEPT !.expectation_config.meta.expectation_id = "e" \o ToString(i)]
        ELSE entries[i]]

Succeeded(entry) == Get(entry, "success", FALSE)

\* the statistics the engine computes over its results
Statistics(results) ==
    LET n == Len(results)
        good == Cardinality({i \in DOMAIN results : Succeeded(results[i])})
    IN  [evaluated_expectations |-> n,
         successful_expectations |-> good,
         unsuccessful_expectations |-> n - good,
         success_percent |-> IF n = 0 THEN 0 ELSE (100 * good) \div n]

\* a payload with the statistics block or, as a dict built by hand, without it
Payload(results, with_statistics) ==
    LET body == [success |-> \A i \in DOMAIN results : Succeeded(results[i]),
                 results |-> results,
                 suite_name |-> "orders",
                 meta |-> [validation_time |-> Now]]
    IN  IF with_statistics THEN body @@ [statistics |-> Statistics(results)] ELSE body

----------------------------------------------------------------------------
(* Specification of the analyzer *)

InitAnalyze ==
    /\ rule = NoRule
    /\ built = NoRule
    /\ suite = <<>>
    /\ gx_suite = NoSuite
    /\ files = NoFile
    /\ \E n \in 0 .. MaxRanked :
          \E es \in IF n <= MaxEntries THEN [1 .. n -> EntryPool] ELSE [1 .. n -> RankedPool] :
             \E with_statistics \in BOOLEAN :
                payload = Payload(Stamp(es), with_statistics)
    /\ prev = NoOut
    /\ process = NoProcess
    /\ out = NoOut

\* analyze_validation_results(payload)
Analyze ==
    /\ payload # NoPayload
    /\ out' = [op |-> "analyze_validation_results",
               value |-> analyze_validation_results(payload)]
    /\ UNCHANGED <<process, rule, built, suite, gx_suite, files, payload, prev>>

\* get_failed_expectations_summary(payload)
FailedSummary ==
    /\ payload # NoPayload
    /\ out' = [op |-> "get_failed_expectations_summary",
               value |-> get_failed_expectations_summary(payload)]
    /\ UNCHANGED <<process, rule, built, suite, gx_suite, files, payload, prev>>

\* get_pydantic_expectations_info()
Info ==
    /\ out' = [op |-> "get_pydantic_expectations_info",
               result |-> get_pydantic_expectations_info]
    /\ UNCHANGED <<process, rule, built, suite, gx_suite, files, payload, prev>>

NextAnalyze ==
    \/ Analyze
    \/ FailedSummary
    \/ Info

SpecAnalyze == InitAnalyze /\ [][NextAnalyze]_vars

----------------------------------------------------------------------------
(* Claims on the analyzer *)

Results == Get(payload, "results", <<>>)

\* the result entries with success = false
FailedIdx == {i \in DOMAIN Results : "success" \in DOMAIN Results[i] /\ ~Results[i]["success"]}

SeverityOf(entry) == Get(Get(entry, "expectation_config", EmptyDict), "severity", "unknown")

\* C9: for every raw result payload, the executive summary's failed_expectations
\* equals the number of result entries with success = false, and
\* critical_failures has one element per failed entry of severity critical.
\* Stated over the payloads in which every entry carries its success flag, where
\* "failed" has one reading.
C9_FailedCountMatchesEntries ==
    (/\ out.op = "analyze_validation_results"
     /\ \A i \in DOMAIN Results : "success" \in DOMAIN Results[i])
        => /\ out.value.executive_summary.failed_expectations = Cardinality(FailedIdx)
           /\ Len(out.value.failure_summary.critical_failures)
                 = Cardinality({i \in FailedIdx : SeverityOf(Results[i]) = "critical"})

Details == out.value.expectation_details
FailIdx == {i \in DOMAIN Details : Details[i].status = "FAIL"}
Ranked == out.value.failure_summary.most_common_failures

\* the rules of a suite have distinct ids, so an id names one entry of the payload
IdsDistinct ==
    \A i, j \in DOMAIN Details :
        Details[i].expectation_id = Details[j].expectation_id => i = j

\* the position in the payload of the k-th entry of most_common_failures
PosOf(k) == CHOOSE i \in DOMAIN Details : Details[i].expectation_id = Ranked[k].expectation_id

Pct(d) == d.failure_info.invalid_percentage

\* C10: most_common_failures holds exactly min(5, number of FAIL entries)
\* entries, all of them FAIL entries of the payload, by descending
\* invalid_percentage, entries of equal percentage in payload order, and no
\* FAIL entry left out has a higher percentage than one that is in.
C10_MostCommonFailures ==
    (out.op = "analyze_validation_results" /\ IdsDistinct) =>
        /\ Len(Ranked) = Min(5, Cardinality(FailIdx))
        /\ \A k \in DOMAIN Ranked :
              /\ \E i \in FailIdx : Details[i] = Ranked[k]
              /\ \A l \in DOMAIN Ranked : k # l => PosOf(k) # PosOf(l)
        /\ \A k, l \in DOMAIN Ranked :
              k < l => /\ Pct(Ranked[k]) >= Pct(Ranked[l])
                       /\ Pct(Ranked[k]) = Pct(Ranked[l]) => PosOf(k) < PosOf(l)
        /\ \A i \in FailIdx :
              (\A k \in DOMAIN Ranked : PosOf(k) # i)
                 => \A k \in DOMAIN Ranked : Pct(Details[i]) <= Pct(Ranked[k])

\* C10 witness: six FAIL entries; the third ties with the first on the lowest
\* percentage and is the one left out, the first is ranked last
C10_Witness ==
    /\ out.op = "analyze_validation_results" /\ IdsDistinct
    /\ Cardinality(FailIdx) = 6
    /\ Len(Ranked) = 5
    /\ Pct(Details[1]) = 10 /\ Pct(Details[2]) = 45 /\ Pct(Details[3]) = 10
    /\ \A k \in DOMAIN Ranked : PosOf(k) # 3
    /\ Pct(Ranked[1]) = Pct(Ranked[2])
    /\ PosOf(5) = 1

\* the entries of the payload that did not succeed, and the three buckets
FailedEntries == {i \in DOMAIN Results : ~Succeeded(Results[i])}

BucketOf(sev) ==
    CASE sev = "critical" -> out.value.failure_summary.critical_failures
      [] sev = "warning" -> out.value.failure_summary.warning_failures
      [] sev = "info" -> out.value.failure_summary.info_failures

\* how many elements of a bucket carry the id
TimesIn(bucket, id) == Cardinality({k \in DOMAIN bucket : bucket[k].expectation_id = id})

TypeOf(entry) == Get(Get(entry, "expectation_config", EmptyDict), "type", "unknown")

KwargsOf(entry) == Get(Get(entry, "expectation_config", EmptyDict), "kwargs", EmptyDict)

\* the entry names a column, and not the empty one
HasColumn(entry) ==
    "column" \in DOMAIN KwargsOf(entry) /\ KwargsOf(entry)["column"] # ""

\* C21: every FAIL entry whose severity is critical, warning or info appears
\* exactly once in the bucket of that severity and in no other bucket; a FAIL
\* entry of any other severity appears in none of the three buckets and is
\* still counted in failed_by_type (and in failed_by_column when it has a
\* column); PASS entries appear in no bucket. Entries are told apart by their
\* ids, so the per-entry part is stated over payloads with distinct ids.
C21_SeverityBuckets ==
    out.op = "analyze_validation_results" =>
        /\ \A sev \in {"critical", "warning", "info"} :
              /\ Len(BucketOf(sev))
                    = Cardinality({i \in FailedEntries : SeverityOf(Results[i]) = sev})
              /\ IdsDistinct =>
                    \A i \in DOMAIN Results :
                       TimesIn(BucketOf(sev), Details[i].expectation_id)
                          = IF i \in FailedEntries /\ SeverityOf(Results[i]) = sev
                            THEN 1 ELSE 0
        /\ \A i \in FailedEntries :
              /\ TypeOf(Results[i]) \in DOMAIN out.value.failure_summary.failed_by_type
              /\ out.value.failure_summary.failed_by_type[TypeOf(Results[i])]
                    = Cardinality({j \in FailedEntries : TypeOf(Results[j]) = TypeOf(Results[i])})
              /\ HasColumn(Results[i]) =>
                    /\ KwargsOf(Results[i])["column"]
                          \in DOMAIN out.value.failure_summary.failed_by_column
                    /\ out.value.failure_summary.failed_by_column[KwargsOf(Results[i])["column"]]
                          = Cardinality({j \in FailedEntries :
                                            /\ HasColumn(Results[j])
                                            /\ KwargsOf(Results[j])["column"]
                                                  = KwargsOf(Results[i])["column"]})

\* C21 witness: a failing entry of severity fatal and a failing entry of
\* severity warning on the same column: the first is in no bucket and both are
\* counted by type and by column
C21_Witness ==
    /\ out.op = "analyze_validation_results" /\ IdsDistinct
    /\ Len(Results) = 2
    /\ FailedEntries = {1, 2}
    /\ SeverityOf(Results[1]) = "fatal" /\ SeverityOf(Results[2]) = "warning"
    /\ out.value.failure_summary.critical_failures = <<>>
    /\ out.value.failure_summary.info_failures = <<>>
    /\ Len(out.value.failure_summary.warning_failures) = 1
    /\ out.value.failure_summary.warning_failures[1].expectation_id = "e2"
    /\ out.value.failure_summary.failed_by_type[ExpectColumnValuesToNotBeNull] = 2
    /\ out.value.failure_summary.failed_by_column["a"] = 2

MetaOf(entry) == Get(Get(entry, "expectation_config", EmptyDict), "meta", EmptyDict)

ResultOf(entry) == Get(entry, "result", EmptyDict)

OrElse(d, key, fallback) == IF key \in DOMAIN d THEN d[key] ELSE fallback

\* C27: analyze_validation_results emits one detail record per result entry, in
\* payload order; a record has status PASS and failure_info = None exactly
\* when the entry's success is true, and status FAIL with a failure_info
\* (element count, invalid count, invalid percentage, sample lists each
\* defaulting to empty) otherwise, an entry with no success field being
\* treated as FAIL; identity fields missing from meta fall back to 'unknown' /
\* 'No description'.
C27_DetailPerEntry ==
    out.op = "analyze_validation_results" =>
        /\ Len(Details) = Len(Results)
        /\ \A i \in DOMAIN Results :
              LET e == Results[i]
                  d == Details[i]
                  ok == "success" \in DOMAIN e /\ e["success"] = TRUE
              IN  /\ d.expectation_id = OrElse(MetaOf(e), "expectation_id", "unknown")
                  /\ d.description = OrElse(MetaOf(e), "description", "No description")
                  /\ d.source = OrElse(MetaOf(e), "source", "unknown")
                  /\ d.status = IF ok THEN "PASS" ELSE "FAIL"
                  /\ ok => d.failure_info = None
                  /\ ~ok =>
                        /\ d.failure_info # None
                        /\ d.failure_info.total_elements = OrElse(ResultOf(e), "element_count", 0)
                        /\ d.failure_info.invalid_count = OrElse(ResultOf(e), "unexpected_count", 0)
                        /\ d.failure_info.invalid_percentage
                              = OrElse(ResultOf(e), "unexpected_percent", 0)
                        /\ d.failure_info.invalid_values
                              = OrElse(ResultOf(e), "partial_unexpected_list", <<>>)
                        /\ d.failure_info.invalid_indices
                              = OrElse(ResultOf(e), "partial_unexpected_index_list", <<>>)
                        /\ d.failure_info.value_counts
                              = OrElse(ResultOf(e), "partial_unexpected_counts", <<>>)

\* C27 witness: an entry without a success flag followed by an entry without a
\* configuration: both are FAIL, the second under the fallback identity
C27_Witness ==
    /\ out.op = "analyze_validation_results"
    /\ Len(Results) = 2
    /\ "success" \notin DOMAIN Results[1]
    /\ "expectation_config" \notin DOMAIN Results[2]
    /\ Details[1].status = "FAIL" /\ Details[1].expectation_id = "e1"
    /\ Details[1].failure_info.invalid_values = <<>>
    /\ Details[2].status = "FAIL" /\ Details[2].expectation_id = "unknown"
    /\ Details[2].description = "No description"

\* C28: the counts in failed_by_type sum to the number of FAIL entries, which
\* equals total_failures of get_failed_expectations_summary; the counts in
\* failed_by_column sum to the number of FAIL entries that carry a non-empty
\* column (table-level rules are counted under no column); no PASS entry
\* contributes to either mapping.
C28_FailureCountsAddUp ==
    (out.op \in {"analyze_validation_results", "get_failed_expectations_summary"}) =>
        LET fs == out.value.failure_summary
        IN  /\ SumOf(fs.failed_by_type) = Cardinality(FailedEntries)
            /\ out.op = "get_failed_expectations_summary" =>
                  /\ out.value.total_failures = Cardinality(FailedEntries)
                  /\ out.value.total_failures = SumOf(fs.failed_by_type)
                  /\ Len(out.value.failed_expectations) = out.value.total_failures
            /\ SumOf(fs.failed_by_column)
                  = Cardinality({i \in FailedEntries : HasColumn(Results[i])})
            /\ \A t \in DOMAIN fs.failed_by_type :
                  fs.failed_by_type[t]
                     = Cardinality({i \in FailedEntries : TypeOf(Results[i]) = t})
            /\ \A c \in DOMAIN fs.failed_by_column :
                  fs.failed_by_column[c]
                     = Cardinality({i \in FailedEntries :
                                       HasColumn(Results[i]) /\ KwargsOf(Results[i])["column"] = c})

\* C28 witness: a failing row-count rule, which has no column, and a failing
\* column rule whose column is the empty string: two failures by type, none by
\* column
C28_Witness ==
    /\ out.op = "get_failed_expectations_summary"
    /\ Len(Results) = 2
    /\ FailedEntries = {1, 2}
    /\ TypeOf(Results[1]) = ExpectTableRowCountToBeBetween
    /\ "column" \in DOMAIN KwargsOf(Results[2]) /\ KwargsOf(Results[2])["column"] = ""
    /\ out.value.total_failures = 2
    /\ DOMAIN out.value.failure_summary.failed_by_column = {}

\* C23: get_pydantic_expectations_info returns normally with a list holding
\* exactly one schema-text block per supported rule kind, in a fixed order, and
\* each block is the schema rendering of a kind defined in the rule model.
C23_InfoListsEveryKind ==
    out.op = "get_pydantic_expectations_info" =>
        /\ out.result.ok
        /\ \A i \in DOMAIN out.result.value :
              /\ out.result.value[i].title \in RuleClasses
              /\ out.result.value[i] = convert_model_to_str(expectation_models[i])
        /\ \A cls \in RuleClasses :
              Cardinality({i \in DOMAIN out.result.value :
                              out.result.value[i].title = cls}) = 1

----------------------------------------------------------------------------
(* The engine context of a manager: ExpectationManager.__init__,           *)
(* _initialize_gx_context, ensure_gx_context, and the convenience          *)
(* functions create_manager and pydantic_to_gx                             *)

\* gx.get_context(): the engine is external; engine_up tells whether the call
\* returns, and the context returned by the n-th call is named n
get_context(engine_up, n) == IF engine_up THEN [ok |-> TRUE, value |-> Some(n)]
                             ELSE [ok |-> FALSE]

\* self.gx_context = gx.get_context(); an exception is re-raised as
\* ExpectationManagerError, after one attempt
_initialize_gx_context(self, engine_up, n) ==
    LET c == get_context(engine_up, n)
    IN  IF c.ok THEN [ok |-> TRUE, value |-> [self EXCEPT !.gx_context = c.value]]
        ELSE ExpectationManagerError

\* __init__: self.gx_context = None, then self._initialize_gx_context()
ExpectationManager(engine_up, n) ==
    _initialize_gx_context([gx_context |-> None], engine_up, n)

\* if not self.gx_context: self._initialize_gx_context()
ensure_gx_context(self, engine_up, n) ==
    IF self.gx_context = None THEN _initialize_gx_context(self, engine_up, n)
    ELSE [ok |-> TRUE, value |-> self]

\* the suites the context life cycle is exercised with
FewSuites == {<<>>} \cup {<<e>> : e \in CorePool}

InitContext ==
    /\ rule = NoRule
    /\ built = NoRule
    /\ suite \in FewSuites
    /\ gx_suite = NoSuite
    /\ files = NoFile
    /\ payload = NoPayload
    /\ prev = NoOut
    /\ process = [managers |-> <<>>, get_context_calls |-> 0, contexts |-> 0,
                  conversion_calls |-> 0]
    /\ out = NoOut

\* manager = create_manager(), that is ExpectationManager()
CreateManager(engine_up) ==
    /\ process.get_context_calls < MaxCalls
    /\ LET n == process.get_context_calls + 1
           m == ExpectationManager(engine_up, n)
       IN  /\ process' = [process EXCEPT
                             !.get_context_calls = n,
                             !.contexts = IF m.ok THEN @ + 1 ELSE @,
                             !.managers = IF m.ok THEN Append(@, m.value) ELSE @]
           /\ out' = [op |-> "create_manager", ok |-> m.ok]
    /\ UNCHANGED <<rule, built, suite, gx_suite, files, payload, prev>>

\* managers[i].pydantic_to_gx_suite(suite, suite_name): ensure_gx_context
\* first, then the conversion
ManagerToGx(i, suite_name, engine_up) ==
    /\ i \in DOMAIN process.managers
    /\ process.conversion_calls < MaxCalls
    /\ LET asked == process.managers[i].gx_context = None
           n == process.get_context_calls + (IF asked THEN 1 ELSE 0)
           self == ensure_gx_context(process.managers[i], engine_up, n)
           r == IF self.ok THEN pydantic_to_gx_suite(suite, suite_name, TRUE) ELSE self
       IN  /\ process' = [process EXCEPT
                             !.get_context_calls = n,
                             !.contexts = IF asked /\ self.ok THEN @ + 1 ELSE @,
                             !.conversion_calls = @ + 1,
                             !.managers[i] = IF self.ok THEN self.value ELSE @]
           /\ gx_suite' = IF r.ok THEN r.value ELSE gx_suite
           /\ out' = [op |-> "pydantic_to_gx_suite", ok |-> r.ok, manager |-> i]
    /\ UNCHANGED <<rule, built, suite, files, payload, prev>>

\* pydantic_to_gx(suite, suite_name): a manager of its own for the call
PydanticToGx(suite_name, engine_up) ==
    /\ process.get_context_calls < MaxCalls
    /\ process.conversion_calls < MaxCalls
    /\ LET n == process.get_context_calls + 1
           manager == ExpectationManager(engine_up, n)
           r == IF manager.ok THEN pydantic_to_gx_suite(suite, suite_name, TRUE) ELSE manager
       IN  /\ process' = [process EXCEPT
                             !.get_context_calls = n,
                             !.contexts = IF manager.ok THEN @ + 1 ELSE @,
                             !.conversion_calls = @ + 1]
           /\ gx_suite' = IF r.ok THEN r.value ELSE gx_suite
           /\ out' = [op |-> "pydantic_to_gx", ok |-> r.ok]
    /\ UNCHANGED <<rule, built, suite, files, payload, prev>>

NextContext ==
    \/ \E engine_up \in BOOLEAN : CreateManager(engine_up)
    \/ \E i \in 1 .. MaxCalls : \E suite_name \in SuiteNames : \E engine_up \in BOOLEAN :
          ManagerToGx(i, suite_name, engine_up)
    \/ \E suite_name \in SuiteNames : \E engine_up \in BOOLEAN :
          PydanticToGx(suite_name, engine_up)

SpecContext == InitContext /\ [][NextContext]_vars

\* C22: there is one process-wide engine context handle: it does not exist
\* before the first conversion call, is created on the first conversion call,
\* and every later core operation in the process (through any manager instance
\* or convenience function) reuses that same handle.
C22_OneProcessWideContext ==
    /\ process.conversion_calls = 0 =>
          /\ process.get_context_calls = 0
          /\ \A i \in DOMAIN process.managers : process.managers[i].gx_context = None
    /\ process.contexts <= 1
    /\ \A i, j \in DOMAIN process.managers :
          process.managers[i].gx_context = process.managers[j].gx_context

\* C22, what holds instead: every manager alive got its context when it was
\* constructed, one call of gx.get_context per manager, and a conversion call
\* on a manager asks for no other
C22_ContextPerManager ==
    /\ \A i \in DOMAIN process.managers : process.managers[i].gx_context # None
    /\ Len(process.managers) <= process.contexts
    /\ out.op = "pydantic_to_gx_suite" => out.ok

====
